---------------------------- MODULE Spec2Model ----------------------------
(***************************************************************************)
(* Model of the openkanban agent-session engine:                           *)
(*   - the status classifier (internal/agent, StatusDetector),             *)
(*   - the UI model/update cycle (internal/ui, Model) together with the    *)
(*     agent manager (internal/agent, Manager) it drives.                  *)
(* Text is modelled as sequences of one-character strings, so that         *)
(* trimming, splitting and substring tests are computed, not assumed.      *)
(* A glyph outside ASCII is one character written by its code point name.  *)
(***************************************************************************)
EXTENDS Integers, Sequences, FiniteSets, TLC

(***************************************************************************)
(* board.AgentStatus                                                       *)
(***************************************************************************)
AgentNone == "none"
AgentIdle == "idle"
AgentWorking == "working"
AgentWaiting == "waiting"
AgentCompleted == "completed"
AgentError == "error"

AgentStatuses ==
  {AgentNone, AgentIdle, AgentWorking, AgentWaiting, AgentCompleted, AgentError}

(***************************************************************************)
(* Text helpers (package strings)                                          *)
(***************************************************************************)
WhiteSpace == {" ", "\n", "\t", "\r"}

RECURSIVE TrimLeft(_)
TrimLeft(s) ==
  IF s = <<>> THEN <<>>
  ELSE IF Head(s) \in WhiteSpace THEN TrimLeft(Tail(s)) ELSE s

RECURSIVE TrimRight(_)
TrimRight(s) ==
  IF s = <<>> THEN <<>>
  ELSE IF s[Len(s)] \in WhiteSpace THEN TrimRight(SubSeq(s, 1, Len(s) - 1))
       ELSE s

TrimSpace(s) == TrimRight(TrimLeft(s))

\* strings.Contains(s, sub)
Contains(s, sub) ==
  \/ sub = <<>>
  \/ \E i \in 1..(Len(s) - Len(sub) + 1) : SubSeq(s, i, i + Len(sub) - 1) = sub

\* strings.ContainsAny(s, chars): some character of chars occurs in s
ContainsAny(s, chars) ==
  \E i \in 1..Len(s) : \E j \in 1..Len(chars) : s[i] = chars[j]

\* strings.HasSuffix(s, suffix)
HasSuffix(s, suffix) ==
  /\ Len(s) >= Len(suffix)
  /\ SubSeq(s, Len(s) - Len(suffix) + 1, Len(s)) = suffix

UpperCase == <<"A", "B", "C", "D", "E", "F", "G", "H", "I", "J", "K", "L", "M",
               "N", "O", "P", "Q", "R", "S", "T", "U", "V", "W", "X", "Y", "Z">>
LowerCase == <<"a", "b", "c", "d", "e", "f", "g", "h", "i", "j", "k", "l", "m",
               "n", "o", "p", "q", "r", "s", "t", "u", "v", "w", "x", "y", "z">>

LowerChar(c) ==
  IF \E i \in 1..26 : UpperCase[i] = c
  THEN LowerCase[CHOOSE i \in 1..26 : UpperCase[i] = c]
  ELSE c

\* strings.ToLower(s)
ToLower(s) == [i \in 1..Len(s) |-> LowerChar(s[i])]

\* strings.Split(s, "\n")
RECURSIVE SplitLines(_)
SplitLines(s) ==
  IF \A i \in 1..Len(s) : s[i] # "\n" THEN <<s>>
  ELSE LET k == CHOOSE i \in 1..Len(s) :
                   /\ s[i] = "\n"
                   /\ \A j \in 1..(i - 1) : s[j] # "\n"
       IN  <<SubSeq(s, 1, k - 1)>> \o SplitLines(SubSeq(s, k + 1, Len(s)))

\* strings.Join(lines, "\n")
RECURSIVE JoinLines(_)
JoinLines(lines) ==
  IF lines = <<>> THEN <<>>
  ELSE IF Len(lines) = 1 THEN lines[1]
  ELSE lines[1] \o <<"\n">> \o JoinLines(Tail(lines))

(***************************************************************************)
(* StatusDetector.analyzeTerminalContent (screen heuristic)                *)
(***************************************************************************)
RecentLines == 10

workingIndicators ==
  << <<"U+280B">>,
     <<"U+2819">>,
     <<"U+2839">>,
     <<"U+2838">>,
     <<"U+283C">>,
     <<"U+2834">>,
     <<"U+2826">>,
     <<"U+2827">>,
     <<"U+2807">>,
     <<"U+280F">>,
     <<"U+25D0">>,
     <<"U+25D3">>,
     <<"U+25D1">>,
     <<"U+25D2">>,
     <<"U+2581">>,
     <<"U+2582">>,
     <<"U+2583">>,
     <<"U+2584">>,
     <<"U+2585">>,
     <<"U+2586">>,
     <<"U+2587">>,
     <<"U+2588">>,
     <<".", ".", ".">>,
     <<"T", "h", "i", "n", "k", "i", "n", "g">>,
     <<"W", "r", "i", "t", "i", "n", "g">>,
     <<"R", "e", "a", "d", "i", "n", "g">>,
     <<"A", "n", "a", "l", "y", "z", "i", "n", "g">>,
     <<"P", "r", "o", "c", "e", "s", "s", "i", "n", "g">>,
     <<"W", "o", "r", "k", "i", "n", "g">>,
     <<"L", "o", "a", "d", "i", "n", "g">>,
     <<"S", "e", "a", "r", "c", "h", "i", "n", "g">>,
     <<"G", "e", "n", "e", "r", "a", "t", "i", "n", "g">>,
     <<"E", "x", "e", "c", "u", "t", "i", "n", "g">>,
     <<"R", "u", "n", "n", "i", "n", "g">> >>

waitingIndicators ==
  << <<"[", "Y", "/", "n", "]">>,
     <<"[", "y", "/", "N", "]">>,
     <<"(", "y", "/", "n", ")">>,
     <<"A", "l", "l", "o", "w", "?">>,
     <<"A", "p", "p", "r", "o", "v", "e", "?">>,
     <<"C", "o", "n", "f", "i", "r", "m", "?">>,
     <<"P", "r", "e", "s", "s">>,
     <<"E", "n", "t", "e", "r", " ", "t", "o">>,
     <<"p", "e", "r", "m", "i", "s", "s", "i", "o", "n">> >>

idlePrompts ==
  << <<">", " ">>,
     <<"$", " ">>,
     <<"U+276F", " ">>,
     <<"U+2192", " ">>,
     <<">", ">", " ">>,
     <<"%", " ">>,
     <<"c", "l", "a", "u", "d", "e", ">">>,
     <<"o", "p", "e", "n", "c", "o", "d", "e", ">">>,
     <<"a", "i", "d", "e", "r", ">">>,
     <<"W", "h", "a", "t", " ", "w", "o", "u", "l", "d", " ", "y", "o", "u", " ", "l", "i", "k", "e">>,
     <<"H", "o", "w", " ", "c", "a", "n", " ", "I", " ", "h", "e", "l", "p">>,
     <<"E", "n", "t", "e", "r", " ", "y", "o", "u", "r">> >>


\* the last non-empty line, trimmed ("" when every line is blank)
RECURSIVE LastNonEmptyLine(_, _)
LastNonEmptyLine(lines, i) ==
  IF i < 1 THEN <<>>
  ELSE IF TrimSpace(lines[i]) # <<>> THEN TrimSpace(lines[i])
       ELSE LastNonEmptyLine(lines, i - 1)

\* variant: the indicators are looked for on the whole screen
analyzeTerminalContent_WholeScreen(content) ==
  IF content = <<>> THEN AgentIdle
  ELSE
    LET lines == SplitLines(content)
        lastLine == LastNonEmptyLine(lines, Len(lines))
    IN  IF \E i \in 1..Len(workingIndicators) :
             Contains(content, workingIndicators[i])
        THEN AgentWorking
        ELSE IF \E i \in 1..Len(waitingIndicators) :
                  \/ ContainsAny(content, waitingIndicators[i])
                  \/ Contains(ToLower(content), ToLower(waitingIndicators[i]))
        THEN AgentWaiting
        ELSE IF \E i \in 1..Len(idlePrompts) :
                  \/ HasSuffix(lastLine, idlePrompts[i])
                  \/ Contains(ToLower(lastLine), ToLower(idlePrompts[i]))
        THEN AgentIdle
        ELSE AgentWorking

analyzeTerminalContent(content) ==
  IF content = <<>> THEN AgentIdle
  ELSE
    LET lines == SplitLines(content)
        recentContent ==
          IF Len(lines) > RecentLines
          THEN JoinLines(SubSeq(lines, Len(lines) - RecentLines + 1, Len(lines)))
          ELSE content
        lastLine == LastNonEmptyLine(lines, Len(lines))
    IN  IF \E i \in 1..Len(workingIndicators) :
             Contains(recentContent, workingIndicators[i])
        THEN AgentWorking
        ELSE IF \E i \in 1..Len(waitingIndicators) :
                  \/ ContainsAny(recentContent, waitingIndicators[i])
                  \/ Contains(ToLower(recentContent), ToLower(waitingIndicators[i]))
        THEN AgentWaiting
        ELSE IF \E i \in 1..Len(idlePrompts) :
                  \/ HasSuffix(lastLine, idlePrompts[i])
                  \/ Contains(ToLower(lastLine), ToLower(idlePrompts[i]))
        THEN AgentIdle
        ELSE AgentWorking

(***************************************************************************)
(* Inputs of the classifier: session names, status-file contents, screens  *)
(***************************************************************************)
\* the result of reading a file that does not exist
NoFile == <<"ENOENT">>

\* the lookup of a session the cache map does not hold
NoEntry == [status |-> "none", timestamp |-> -1]

\* session names handed to the detector; "" is the empty name
SessionNames == {"", "ok-t1"}

\* the two directories of NewStatusDetector, in the order they are read
statusDirs == <<"claude-status", "openkanban-status">>

txtWorking == <<"w", "o", "r", "k", "i", "n", "g", "\n">>
txtDone == <<" ", "d", "o", "n", "e">>
txtIdle == <<"i", "d", "l", "e", "\n">>
txtWaiting == <<"w", "a", "i", "t", "i", "n", "g", "\n">>
txtPermission == <<"p", "e", "r", "m", "i", "s", "s", "i", "o", "n", "\n">>
txtError == <<"e", "r", "r", "o", "r", "\n">>
txtCompleted == <<"c", "o", "m", "p", "l", "e", "t", "e", "d", "\n">>
txtBusy == <<"b", "u", "s", "y", "\n">>
txtUpper == <<"W", "o", "r", "k", "i", "n", "g", "\n">>

\* contents a status file may hold: the seven tokens (with and without the
\* trailing newline or padding), two unrecognised words and the empty file
FileContents ==
  {txtWorking, txtDone, txtIdle, txtWaiting, txtPermission, txtError,
   txtCompleted, txtBusy, txtUpper, <<>>}

scrThinking == <<"$", " ", "m", "a", "k", "e", "\n", "T", "h", "i", "n", "k", "i", "n", "g">>
scrConfirm == <<"(", "y", "/", "n", ")">>
scrHash == <<"#">>

\* screens handed to DetectStatus
Screens == {<<>>, scrThinking, scrConfirm}

(***************************************************************************)
(* State                                                                   *)
(***************************************************************************)
VARIABLES
  statusCache,   \* StatusDetector.statusCache: session name -> entry | NoEntry
  now,           \* the clock read by time.Now / time.Since, in units of 250 ms
  statusFiles,   \* the files <dir>/<session>.status: content | NoFile
  lastCall,      \* the last DetectStatus call: its arguments and its result
  tickets,       \* Board.Tickets: ticket id -> ticket
  nextId,        \* the number of tickets created so far
  columnTickets, \* Model.columnTickets: per column, the ids of its tickets
  mode,          \* Model.mode
  activeColumn,  \* Model.activeColumn
  activeTicket,  \* Model.activeTicket
  showHelp,      \* Model.showHelp
  showConfirm,   \* Model.showConfirm
  confirmFn,     \* Model.confirmFn: the ticket its closure deletes, or Nil
  titleInput,    \* Model.titleInput: the text typed so far
  notification,  \* Model.notification
  quit,          \* Update has returned tea.Quit
  tmux,          \* the tmux sessions that exist
  worktrees,     \* the branches that have a git worktree
  lastEvent,     \* what the last update step did
  lastKey,       \* the key log: the key of the last update step and the
                 \* state it met, in the specifications that keep the log
  width,         \* Model.width
  height,        \* Model.height
  scrollOffset,  \* Model.scrollOffset
  formScrollOffset, \* Model.formScrollOffset
  ticketFormField,  \* Model.ticketFormField
  statusCacheMu, \* StatusDetector.statusCacheMu: the goroutines that hold the
                 \* read lock and the one that holds the write lock
  calls,         \* per goroutine, the call into the detector it is in: its
                 \* position and its local variables
  cacheOrigin,   \* for the cache entries, how many InvalidateCache calls had
                 \* returned when their status was read from disk
  opencodeServer, \* OpencodeServer: its running flag and its cmd field
  opencodeProcs  \* the opencode processes: the server of someone else on
                 \* the port, and the children started by Start

detectorVars == <<statusCache, now, statusFiles, lastCall>>

\* bound of the clock
MaxTime == 3

\* cacheExpiration: 500 ms, in units of 250 ms
cacheExpiration == 2

\* sessions whose status files the environment writes
FileSessions == {"ok-t1"}

NoCall ==
  [op |-> "none", session |-> "", content |-> <<>>, running |-> FALSE,
   result |-> AgentNone, before |-> NoEntry]

(***************************************************************************)
(* The board (internal/board) and the configuration the UI reads           *)
(***************************************************************************)
StatusBacklog == "backlog"
StatusInProgress == "in_progress"
StatusDone == "done"

\* Board.Columns of the default board: one column per ticket status
Columns == <<StatusBacklog, StatusInProgress, StatusDone>>

ModeNormal == "NORMAL"
ModeCommand == "COMMAND"
ModeCreateTicket == "CREATE"

\* Board.Settings
TmuxPrefix == "ok-"
BranchPrefix == "task/"
DefaultAgent == "claude"

\* config.Agents: the configured agent types
Agents == {"claude"}

\* bound on the number of tickets ever created
MaxTickets == 1

\* bound on the length of the text typed into the title input
MaxTitleLen == 1

\* ticket ids in the order NewTicket hands them out
TicketId(n) == "t" \o ToString(n)

Nil == ""

\* TmuxPrefix + string(ticket.ID)[:8]
SessionOf(id) == TmuxPrefix \o id

\* BranchPrefix + string(ticket.ID)[:8]
BranchOf(id) == BranchPrefix \o id

\* the path CreateWorktree returns for a branch
WorktreePathOf(branch) == "repo-worktrees/" \o branch

\* board.NewTicket(title)
NewTicket(title) ==
  [Title |-> title, Status |-> StatusBacklog, WorktreePath |-> "",
   BranchName |-> "", BaseBranch |-> "", AgentType |-> "",
   AgentStatus |-> AgentNone, TmuxSession |-> ""]

\* Board.GetTicketsByStatus: the ids of the tickets of a column, oldest first
GetTicketsByStatus(tk, n, status) ==
  SelectSeq([i \in 1..n |-> TicketId(i)],
            LAMBDA id : id \in DOMAIN tk /\ tk[id].Status = status)

\* Board.AddTicket
AddTicket(tk, id, ticket) == [i \in DOMAIN tk \cup {id} |-> IF i = id THEN ticket ELSE tk[i]]

\* Board.DeleteTicket
DeleteTicket(tk, id) == [i \in DOMAIN tk \ {id} |-> tk[i]]

\* Board.MoveTicket
MoveTicket(tk, id, status) == [tk EXCEPT ![id].Status = status]

(***************************************************************************)
(* Model helpers                                                           *)
(***************************************************************************)
\* Model.refreshColumnTickets
refreshColumnTickets(tk, n) ==
  [i \in 1..Len(Columns) |-> GetTicketsByStatus(tk, n, Columns[i])]

\* Model.selectedTicket: the id of the selected ticket, Nil when there is none
selectedTicket ==
  IF Len(columnTickets) <= activeColumn THEN Nil
  ELSE LET col == columnTickets[activeColumn + 1]
       IN  IF Len(col) <= activeTicket THEN Nil ELSE col[activeTicket + 1]

\* variant: Done is followed by Backlog
nextStatus_Wraps(current) ==
  IF current = StatusBacklog THEN StatusInProgress
  ELSE IF current = StatusInProgress THEN StatusDone
  ELSE StatusBacklog

\* Model.nextStatus
nextStatus(current) ==
  IF current = StatusBacklog THEN StatusInProgress
  ELSE IF current = StatusInProgress THEN StatusDone
  ELSE current

\* the texts handed to Model.notify
NoteTitleEmpty == "Title cannot be empty"
NoteCreated == "Created: "
NoteNoSession == "No agent session for this ticket"
NoteDeleted == "Deleted ticket"
NoteMoved == "Moved to "
NoteMoveFirst == "Move ticket to In Progress first"
NoteWorktreeFailed == "Failed to create worktree: "
NoteSpawnFailed == "Failed to spawn agent: "
NoteSpawned == "Spawned "
NoteStopFailed == "Failed to stop agent: "
NoteStopped == "Agent stopped"
NoteSaveFailed == "Failed to save: "

\* Model.notify, given the notification shown before the call
notify(msg, shown) == msg

\* Model.saveBoard: the notification it leaves, given the one shown before
saveBoard(saveOk, shown) == IF saveOk THEN shown ELSE notify(NoteSaveFailed, shown)

\* what one update step did: the handler, the ticket it acted on, where it
\* failed ("" when it did not), whether the board changed, the outcome of
\* Save, the external calls made inside the step, and the command returned;
\* found is what a status poll found outside the program, per ticket
Event(op, id, fail, mutated, saved, blocking, cmd) ==
  [op |-> op, ticket |-> id, fail |-> fail, mutated |-> mutated,
   saved |-> saved, blocking |-> blocking, cmd |-> cmd, found |-> <<>>]

NoEvent == Event("none", Nil, "", FALSE, "none", {}, "none")

\* a key handler that touches neither the board nor anything outside
KeyOnly == Event("key", Nil, "", FALSE, "none", {}, "none")

SaveOutcome(saveOk) == IF saveOk THEN "ok" ELSE "failed"

boardVars == <<tickets, nextId, columnTickets>>
cursorVars == <<activeColumn, activeTicket>>

\* the fields of the ticket form, in the order renderTicketForm lays them out
formFieldTitle == 0
formFieldDescription == 1
formFieldBranch == 2
formFieldLabels == 3
formFieldPriority == 4
formFieldWorktree == 5
formFieldAgent == 6
formFieldBlockedBy == 7
formFieldProject == 8

overlayVars == <<showHelp, showConfirm, confirmFn>>
worldVars == <<tmux, worktrees>>
viewVars == <<width, height, scrollOffset, formScrollOffset, ticketFormField>>
lockVars == <<statusCacheMu, calls, cacheOrigin>>
serverVars == <<opencodeServer, opencodeProcs>>
sideVars == <<lockVars, serverVars>>

modelVars ==
  <<tickets, nextId, columnTickets, mode, activeColumn, activeTicket,
    showHelp, showConfirm, confirmFn, titleInput, notification, quit,
    tmux, worktrees, lastEvent, lastKey, width, height, scrollOffset,
    formScrollOffset, ticketFormField>>

\* everything a sequential call into the detector leaves alone
uiVars == <<modelVars, sideVars>>

vars ==
  <<statusCache, now, statusFiles, lastCall, tickets, nextId, columnTickets,
    mode, activeColumn, activeTicket, showHelp, showConfirm, confirmFn,
    titleInput, notification, quit, tmux, worktrees, lastEvent, lastKey,
    width, height, scrollOffset, formScrollOffset, ticketFormField,
    statusCacheMu, calls, cacheOrigin, opencodeServer, opencodeProcs>>

(***************************************************************************)
(* StatusDetector.readStatusFile                                           *)
(***************************************************************************)
tokWorking == <<"w", "o", "r", "k", "i", "n", "g">>
tokDone == <<"d", "o", "n", "e">>
tokIdle == <<"i", "d", "l", "e">>
tokWaiting == <<"w", "a", "i", "t", "i", "n", "g">>
tokPermission == <<"p", "e", "r", "m", "i", "s", "s", "i", "o", "n">>
tokError == <<"e", "r", "r", "o", "r">>
tokCompleted == <<"c", "o", "m", "p", "l", "e", "t", "e", "d">>

\* variant: the switch has a default case
SwitchStatus_DefaultIdle(statusStr, status) ==
  IF statusStr = tokWorking THEN AgentWorking
  ELSE IF statusStr \in {tokWaiting, tokPermission} THEN AgentWaiting
  ELSE IF statusStr = tokError THEN AgentError
  ELSE IF statusStr = tokCompleted THEN AgentCompleted
  ELSE AgentIdle

\* the switch on the trimmed content; status is kept when no case matches
SwitchStatus(statusStr, status) ==
  IF statusStr = tokWorking THEN AgentWorking
  ELSE IF statusStr \in {tokDone, tokIdle} THEN AgentIdle
  ELSE IF statusStr \in {tokWaiting, tokPermission} THEN AgentWaiting
  ELSE IF statusStr = tokError THEN AgentError
  ELSE IF statusStr = tokCompleted THEN AgentCompleted
  ELSE status

\* os.ReadFile(filepath.Join(dir, sessionName + ".status")): NoFile is the error
ReadFile(dir, sessionName) ==
  IF <<dir, sessionName>> \in DOMAIN statusFiles
  THEN statusFiles[<<dir, sessionName>>]
  ELSE NoFile

\* variant: the loop does not stop at the first recognised token
RECURSIVE ScanStatusDirs_LastWins(_, _, _)
ScanStatusDirs_LastWins(sessionName, i, status) ==
  IF i > Len(statusDirs) THEN status
  ELSE LET content == ReadFile(statusDirs[i], sessionName)
       IN  IF content = NoFile
           THEN ScanStatusDirs_LastWins(sessionName, i + 1, status)
           ELSE ScanStatusDirs_LastWins(sessionName, i + 1,
                                        SwitchStatus(TrimSpace(content), status))

\* the loop over statusDirs, from directory i on
RECURSIVE ScanStatusDirs(_, _, _)
ScanStatusDirs(sessionName, i, status) ==
  IF i > Len(statusDirs) THEN status
  ELSE LET content == ReadFile(statusDirs[i], sessionName)
       IN  IF content = NoFile THEN ScanStatusDirs(sessionName, i + 1, status)
           ELSE LET st == SwitchStatus(TrimSpace(content), status)
                IN  IF st # AgentNone THEN st
                    ELSE ScanStatusDirs(sessionName, i + 1, st)

\* variant: an entry whose age equals the expiry is still served
CacheFresh_Inclusive(sessionName) ==
  /\ sessionName \in DOMAIN statusCache
  /\ statusCache[sessionName] # NoEntry
  /\ now - statusCache[sessionName].timestamp <= cacheExpiration

\* exists && time.Since(cached.timestamp) < d.cacheExpiration
CacheFresh(sessionName) ==
  /\ sessionName \in DOMAIN statusCache
  /\ statusCache[sessionName] # NoEntry
  /\ now - statusCache[sessionName].timestamp < cacheExpiration

\* the returned status and the cache the call leaves behind
readStatusFile(sessionName) ==
  IF sessionName = "" THEN [status |-> AgentNone, cache |-> statusCache]
  ELSE IF CacheFresh(sessionName)
  THEN [status |-> statusCache[sessionName].status, cache |-> statusCache]
  ELSE LET status == ScanStatusDirs(sessionName, 1, AgentNone)
       IN  [status |-> status,
            cache  |-> [statusCache EXCEPT ![sessionName] =
                          [status |-> status, timestamp |-> now]]]

(***************************************************************************)
(* StatusDetector.DetectStatus                                             *)
(***************************************************************************)
\* variant: the status files are consulted before the liveness flag
DetectStatusValue_FilesFirst(sessionName, terminalContent, processRunning) ==
  LET r == readStatusFile(sessionName)
  IN  IF r.status # AgentNone THEN r
      ELSE IF ~processRunning THEN [status |-> AgentNone, cache |-> r.cache]
      ELSE [status |-> analyzeTerminalContent(terminalContent),
            cache  |-> r.cache]

DetectStatusValue(sessionName, terminalContent, processRunning) ==
  IF ~processRunning THEN [status |-> AgentNone, cache |-> statusCache]
  ELSE LET r == readStatusFile(sessionName)
       IN  IF r.status # AgentNone THEN r
           ELSE [status |-> analyzeTerminalContent(terminalContent),
                 cache  |-> r.cache]

DetectStatus(sessionName, terminalContent, processRunning) ==
  LET r == DetectStatusValue(sessionName, terminalContent, processRunning)
  IN  /\ statusCache' = r.cache
      /\ lastCall' = [op |-> "DetectStatus", session |-> sessionName,
                      content |-> terminalContent, running |-> processRunning,
                      result |-> r.status,
                      before |-> IF sessionName \in DOMAIN statusCache
                                 THEN statusCache[sessionName] ELSE NoEntry]
      /\ UNCHANGED <<now, statusFiles, uiVars>>

\* the record of an InvalidateCache call: its argument and the entry the
\* session had before
InvalidateCall(sessionName) ==
  [op |-> "InvalidateCache", session |-> sessionName, content |-> <<>>,
   running |-> FALSE, result |-> AgentNone,
   before |-> IF sessionName \in DOMAIN statusCache
              THEN statusCache[sessionName] ELSE NoEntry]

\* variant: the map is replaced whatever the argument
InvalidateCache_ClearsAll(sessionName) ==
  /\ statusCache' = [s \in DOMAIN statusCache |-> NoEntry]
  /\ lastCall' = InvalidateCall(sessionName)
  /\ UNCHANGED <<now, statusFiles, uiVars>>

\* StatusDetector.InvalidateCache
InvalidateCache(sessionName) ==
  /\ statusCache' =
       IF sessionName = "" THEN [s \in DOMAIN statusCache |-> NoEntry]
       ELSE [s \in DOMAIN statusCache |->
               IF s = sessionName THEN NoEntry ELSE statusCache[s]]
  /\ lastCall' = InvalidateCall(sessionName)
  /\ UNCHANGED <<now, statusFiles, uiVars>>

\* variant: Completed is written with the token of the hooks' "done"
StatusText_CompletedDone(status) ==
  (IF status = AgentWorking THEN tokWorking
   ELSE IF status = AgentIdle THEN tokIdle
   ELSE IF status = AgentWaiting THEN tokWaiting
   ELSE IF status = AgentCompleted THEN tokDone
   ELSE IF status = AgentError THEN tokError
   ELSE tokIdle) \o <<"\n">>

\* the text WriteStatusFile writes for a status
StatusText(status) ==
  (IF status = AgentWorking THEN tokWorking
   ELSE IF status = AgentIdle THEN tokIdle
   ELSE IF status = AgentWaiting THEN tokWaiting
   ELSE IF status = AgentCompleted THEN tokCompleted
   ELSE IF status = AgentError THEN tokError
   ELSE tokIdle) \o <<"\n">>

\* WriteStatusFile: the openkanban-status file of the session; the call
\* record keeps the status argument in its result field
WriteStatusFile(sessionName, status) ==
  /\ statusFiles' =
       [statusFiles EXCEPT ![<<statusDirs[2], sessionName>>] = StatusText(status)]
  /\ lastCall' = [NoCall EXCEPT !.op = "WriteStatusFile",
                               !.session = sessionName, !.result = status]
  /\ UNCHANGED <<statusCache, now, uiVars>>

\* CleanupStatusFile: os.Remove in both directories
CleanupStatusFile(sessionName) ==
  /\ statusFiles' =
       [f \in DOMAIN statusFiles |->
          IF f[2] = sessionName THEN NoFile ELSE statusFiles[f]]
  /\ lastCall' = NoCall
  /\ UNCHANGED <<statusCache, now, uiVars>>

(***************************************************************************)
(* Environment of the detector                                             *)
(***************************************************************************)
\* an agent hook (or anything else) rewrites or removes a status file
HookWritesFile(dir, sessionName, content) ==
  /\ statusFiles[<<dir, sessionName>>] # content
  /\ statusFiles' = [statusFiles EXCEPT ![<<dir, sessionName>>] = content]
  /\ lastCall' = NoCall
  /\ UNCHANGED <<statusCache, now, uiVars>>

\* 250 ms pass
Tick ==
  /\ now < MaxTime
  /\ now' = now + 1
  /\ lastCall' = NoCall
  /\ UNCHANGED <<statusCache, statusFiles, uiVars>>

StatusFileNames == {<<statusDirs[i], s>> : i \in 1..2, s \in FileSessions}

(***************************************************************************)
(* agent.Manager                                                           *)
(***************************************************************************)
\* Manager.SessionExists: tmux has-session
SessionExists(name) == name \in tmux

\* Manager.SpawnAgent: the error flag, the ticket and the tmux sessions after
\* the call; runOk is the outcome of tmux new-session
SpawnAgent(ticket, agentType, runOk) ==
  IF \/ agentType \notin Agents
     \/ ticket.TmuxSession = ""
     \/ ticket.WorktreePath = ""
     \/ SessionExists(ticket.TmuxSession)
     \/ ~runOk
  THEN [err |-> TRUE, ticket |-> ticket, tmux |-> tmux]
  ELSE [err |-> FALSE,
        ticket |-> [ticket EXCEPT !.AgentType = agentType,
                                  !.AgentStatus = AgentIdle],
        tmux |-> tmux \cup {ticket.TmuxSession}]

\* whether SpawnAgent reaches a tmux invocation
SpawnAgentCallsTmux(ticket, agentType) ==
  agentType \in Agents /\ ticket.TmuxSession # "" /\ ticket.WorktreePath # ""

\* variant: stopping the agent also releases the ticket's worktree
StopAgent_ReleasesWorktree(ticket, killOk) ==
  IF ticket.TmuxSession = ""
  THEN [err |-> FALSE, ticket |-> ticket, tmux |-> tmux]
  ELSE IF ~SessionExists(ticket.TmuxSession)
  THEN [err |-> FALSE,
        ticket |-> [ticket EXCEPT !.AgentStatus = AgentNone,
                                  !.WorktreePath = "", !.BranchName = ""],
        tmux |-> tmux]
  ELSE IF ~killOk
  THEN [err |-> TRUE, ticket |-> ticket, tmux |-> tmux]
  ELSE [err |-> FALSE,
        ticket |-> [ticket EXCEPT !.AgentStatus = AgentNone,
                                  !.WorktreePath = "", !.BranchName = ""],
        tmux |-> tmux \ {ticket.TmuxSession}]

\* Manager.StopAgent; killOk is the outcome of tmux kill-session
StopAgent(ticket, killOk) ==
  IF ticket.TmuxSession = ""
  THEN [err |-> FALSE, ticket |-> ticket, tmux |-> tmux]
  ELSE IF ~SessionExists(ticket.TmuxSession)
  THEN [err |-> FALSE, ticket |-> [ticket EXCEPT !.AgentStatus = AgentNone],
        tmux |-> tmux]
  ELSE IF ~killOk
  THEN [err |-> TRUE, ticket |-> ticket, tmux |-> tmux]
  ELSE [err |-> FALSE, ticket |-> [ticket EXCEPT !.AgentStatus = AgentNone],
        tmux |-> tmux \ {ticket.TmuxSession}]

\* AgentConfig.StatusFile of each configured agent
StatusFileOf(agentType) == ".claude/status.json"

\* what a poll finds outside the program: the "status" field of the agent's
\* JSON status file ("" when the file is missing or unreadable) and whether
\* the pane's process has children
PollFindings == [file : {"", "blocked"}, active : BOOLEAN]

\* Manager.detectActivity
detectActivity(found) == IF found.active THEN AgentWorking ELSE AgentIdle

\* Manager.GetStatus
GetStatus(ticket, found) ==
  IF ticket.TmuxSession = "" THEN AgentNone
  ELSE IF ~SessionExists(ticket.TmuxSession) THEN AgentNone
  ELSE IF /\ ticket.AgentType # ""
          /\ ticket.AgentType \in Agents
          /\ StatusFileOf(ticket.AgentType) # ""
          /\ found.file # ""
  THEN found.file
  ELSE detectActivity(found)

\* Manager.PollStatuses
PollStatuses(tk, found) ==
  [id \in DOMAIN tk |->
     IF tk[id].Status = StatusInProgress
     THEN [tk[id] EXCEPT !.AgentStatus =
             GetStatus(tk[id], IF id \in DOMAIN found THEN found[id]
                               ELSE [file |-> "", active |-> FALSE])]
     ELSE tk[id]]

(***************************************************************************)
(* Model.Update                                                            *)
(***************************************************************************)
Keys ==
  {"ctrl+c", "q", "esc", "?", "h", "l", "j", "k", "g", "G", "n", "enter",
   "d", " ", "s", "S", ":", "y", "Y", "N", "a"}

\* the keys pressed while the title form has the input
FormKeys == {"a", " ", "enter", "esc", "?", "ctrl+c"}

\* variant: the mode handler is asked before the overlays
Route_ModeFirst(key) ==
  IF key \in {"ctrl+c", "q"} /\ mode = ModeNormal THEN "quit"
  ELSE IF key = "esc" THEN "esc"
  ELSE IF key = "?" THEN "help"
  ELSE IF mode = ModeNormal THEN "normal"
  ELSE IF mode = ModeCommand THEN "command"
  ELSE IF mode = ModeCreateTicket THEN "create"
  ELSE IF showHelp THEN "closeHelp"
  ELSE IF showConfirm THEN "confirm"
  ELSE "none"

\* Model.handleKey: the handler a key is routed to
Route(key) ==
  IF key \in {"ctrl+c", "q"} /\ mode = ModeNormal THEN "quit"
  ELSE IF key = "esc" THEN "esc"
  ELSE IF key = "?" THEN "help"
  ELSE IF showHelp THEN "closeHelp"
  ELSE IF showConfirm THEN "confirm"
  ELSE IF mode = ModeNormal THEN "normal"
  ELSE IF mode = ModeCommand THEN "command"
  ELSE IF mode = ModeCreateTicket THEN "create"
  ELSE "none"

\* tea.KeyMsg: the key, with the mode and the overlays handleKey finds
KeyMsg(key) ==
  [key |-> key, mode |-> mode, showHelp |-> showHelp,
   showConfirm |-> showConfirm]

NoKey == [key |-> "", mode |-> "", showHelp |-> FALSE, showConfirm |-> FALSE]

\* the value of the key log in a specification that keeps none
KeyLogOff ==
  [key |-> "off", mode |-> "", showHelp |-> FALSE, showConfirm |-> FALSE]

\* the next value of the key log
LogKey(k) == IF lastKey = KeyLogOff THEN KeyLogOff ELSE k

\* a key event is delivered to a running program
KeyEvent(key, handler) ==
  /\ ~quit
  /\ mode = ModeCreateTicket => key \in FormKeys
  /\ Route(key) = handler
  /\ lastKey' = LogKey(KeyMsg(key))
  /\ UNCHANGED sideVars

\* case "ctrl+c", "q" in Normal mode: tea.Quit
Quit(key) ==
  /\ KeyEvent(key, "quit")
  /\ quit' = TRUE
  /\ lastEvent' = Event("quit", Nil, "", FALSE, "none", {}, "Quit")
  /\ UNCHANGED <<boardVars, cursorVars, overlayVars, worldVars, mode,
                 titleInput, notification, detectorVars, viewVars>>

\* variant: Esc leaves the Help overlay as it is
Escape_KeepsHelp(key) ==
  /\ KeyEvent(key, "esc")
  /\ mode' = ModeNormal
  /\ showHelp' = showHelp
  /\ showConfirm' = FALSE
  /\ lastEvent' = KeyOnly
  /\ UNCHANGED <<boardVars, cursorVars, worldVars, confirmFn, titleInput,
                 notification, quit, detectorVars, viewVars>>

\* case "esc"
Escape(key) ==
  /\ KeyEvent(key, "esc")
  /\ mode' = ModeNormal
  /\ showHelp' = FALSE
  /\ showConfirm' = FALSE
  /\ lastEvent' = KeyOnly
  /\ UNCHANGED <<boardVars, cursorVars, worldVars, confirmFn, titleInput,
                 notification, quit, detectorVars, viewVars>>

\* case "?"
ToggleHelp(key) ==
  /\ KeyEvent(key, "help")
  /\ showHelp' = ~showHelp
  /\ lastEvent' = KeyOnly
  /\ UNCHANGED <<boardVars, cursorVars, worldVars, mode, showConfirm,
                 confirmFn, titleInput, notification, quit, detectorVars, viewVars>>

\* if m.showHelp: any key closes help
CloseHelp(key) ==
  /\ KeyEvent(key, "closeHelp")
  /\ showHelp' = FALSE
  /\ lastEvent' = KeyOnly
  /\ UNCHANGED <<boardVars, cursorVars, worldVars, mode, showConfirm,
                 confirmFn, titleInput, notification, quit, detectorVars, viewVars>>

\* the deletion callback built by confirmDeleteTicket, for the ticket id
ConfirmFnDelete(id, saveOk) ==
  LET tk == DeleteTicket(tickets, id)
  IN  /\ tickets' = tk
      /\ columnTickets' = refreshColumnTickets(tk, nextId)
      /\ notification' = notify(NoteDeleted, saveBoard(saveOk, notification))
      /\ lastEvent' = Event("confirmYes", id, "", tk # tickets,
                            SaveOutcome(saveOk), {"file"}, "none")
      /\ UNCHANGED <<nextId, tmux, worktrees>>

\* variant: every letter answers yes
confirmYesKeys_Letters == {"y", "Y", "a", "l"}

\* case "y", "Y"
confirmYesKeys == {"y", "Y"}

\* Model.handleConfirm
handleConfirm(key) ==
  /\ KeyEvent(key, "confirm")
  /\ \/ /\ key \in confirmYesKeys
        /\ showConfirm' = FALSE
        /\ IF confirmFn # Nil
           THEN \E saveOk \in BOOLEAN : ConfirmFnDelete(confirmFn, saveOk)
           ELSE /\ lastEvent' = KeyOnly
                /\ UNCHANGED <<boardVars, worldVars, notification>>
     \/ /\ key \in {"n", "N", "esc"}
        /\ showConfirm' = FALSE
        /\ lastEvent' = KeyOnly
        /\ UNCHANGED <<boardVars, worldVars, notification>>
     \/ /\ key \notin confirmYesKeys \cup {"n", "N", "esc"}
        /\ lastEvent' = KeyOnly
        /\ UNCHANGED <<boardVars, worldVars, notification, showConfirm>>
  /\ UNCHANGED <<cursorVars, mode, showHelp, confirmFn, titleInput, quit,
                 detectorVars, viewVars>>

\* Model.handleCommandMode
handleCommandMode(key) ==
  /\ KeyEvent(key, "command")
  /\ mode' = IF key \in {"enter", "esc"} THEN ModeNormal ELSE mode
  /\ lastEvent' = KeyOnly
  /\ UNCHANGED <<boardVars, cursorVars, overlayVars, worldVars, titleInput,
                 notification, quit, detectorVars, viewVars>>

\* textinput.Model.Update: a printable key is appended while there is room
TitleInputUpdate(value, key) ==
  IF key \in {"a", " "} /\ Len(value) < MaxTitleLen
  THEN Append(value, key)
  ELSE value

\* Model.handleCreateTicketMode
handleCreateTicketMode(key) ==
  /\ KeyEvent(key, "create")
  /\ \/ /\ key = "enter"
        /\ TrimSpace(titleInput) = <<>>
        /\ notification' = notify(NoteTitleEmpty, notification)
        /\ lastEvent' = Event("create", Nil, "empty", FALSE, "none", {}, "none")
        /\ UNCHANGED <<boardVars, worldVars, mode, titleInput>>
     \/ /\ key = "enter"
        /\ TrimSpace(titleInput) # <<>>
        /\ nextId < MaxTickets
        /\ \E saveOk \in BOOLEAN :
             LET id == TicketId(nextId + 1)
                 ticket == [NewTicket(TrimSpace(titleInput)) EXCEPT
                              !.Status = Columns[activeColumn + 1]]
                 tk == AddTicket(tickets, id, ticket)
             IN  /\ tickets' = tk
                 /\ nextId' = nextId + 1
                 /\ columnTickets' = refreshColumnTickets(tk, nextId + 1)
                 /\ mode' = ModeNormal
                 /\ notification' =
                      notify(NoteCreated, saveBoard(saveOk, notification))
                 /\ lastEvent' = Event("create", id, "", TRUE,
                                       SaveOutcome(saveOk), {"file"}, "none")
                 /\ UNCHANGED <<tmux, worktrees, titleInput>>
     \/ /\ key = "esc"
        /\ mode' = ModeNormal
        /\ lastEvent' = KeyOnly
        /\ UNCHANGED <<boardVars, worldVars, titleInput, notification>>
     \/ /\ key \notin {"enter", "esc"}
        /\ titleInput' = TitleInputUpdate(titleInput, key)
        /\ lastEvent' = KeyOnly
        /\ UNCHANGED <<boardVars, worldVars, mode, notification>>
  /\ UNCHANGED <<cursorVars, overlayVars, quit, detectorVars, viewVars>>

minColumnWidth == 20

\* border (2) + padding (2) + margin (1)
columnOverhead == 5

\* Go's integer division, which truncates toward zero
Quot(a, b) == IF a >= 0 THEN a \div b ELSE 0 - ((0 - a) \div b)

\* len(m.board.Columns): columnTickets has one entry per column of the
\* board that was loaded
NumColumns == Len(columnTickets)

\* Model.calcColumnWidth
calcColumnWidth(w) ==
  IF w = 0 \/ NumColumns = 0 THEN minColumnWidth
  ELSE LET numCols == NumColumns
           colWidth == Quot(w - numCols * columnOverhead, numCols)
       IN  IF colWidth < minColumnWidth THEN minColumnWidth ELSE colWidth

\* Model.visibleColumnCount
visibleColumnCount(w, colWidth) ==
  IF w = 0 THEN NumColumns
  ELSE LET visible == Quot(w, colWidth + columnOverhead)
       IN  IF visible < 1 THEN 1
           ELSE IF visible > NumColumns THEN NumColumns ELSE visible

\* the number of columns a window of width w has room for
VisibleCols(w) == visibleColumnCount(w, calcColumnWidth(w))

\* Model.ensureColumnVisible: the scroll offset it leaves, for the active
\* column col, the scroll offset off and the width w
ensureColumnVisible(col, off, w) ==
  LET visibleCols == VisibleCols(w)
      off1 == IF col < off THEN col
              ELSE IF col >= off + visibleCols THEN col - visibleCols + 1
              ELSE off
      maxOffset == IF NumColumns - visibleCols < 0 THEN 0
                   ELSE NumColumns - visibleCols
  IN  IF off1 > maxOffset THEN maxOffset ELSE off1

\* Model.moveColumn: the two clamps one after the other
moveColumn(delta) ==
  LET c == activeColumn + delta
      low == IF c < 0 THEN 0 ELSE c
      col == IF low >= NumColumns THEN NumColumns - 1 ELSE low
  IN  /\ activeColumn' = col
      /\ activeTicket' = 0
      /\ scrollOffset' = ensureColumnVisible(col, scrollOffset, width)
      /\ lastEvent' = KeyOnly

\* Model.moveTicket; m.columnTickets[m.activeColumn] with a negative index
\* panics and the program ends there: the step has no successor
moveTicket(delta) ==
  /\ activeColumn >= 0
  /\ IF Len(columnTickets) <= activeColumn
     THEN activeTicket' = activeTicket
     ELSE LET n == Len(columnTickets[activeColumn + 1])
              t == IF activeTicket + delta < 0 THEN 0 ELSE activeTicket + delta
          IN  activeTicket' =
                IF t >= n THEN (IF n - 1 < 0 THEN 0 ELSE n - 1) ELSE t
  /\ activeColumn' = activeColumn
  /\ scrollOffset' = scrollOffset
  /\ lastEvent' = KeyOnly

\* case "g"
jumpFirst ==
  /\ activeTicket' = 0
  /\ activeColumn' = activeColumn
  /\ scrollOffset' = scrollOffset
  /\ lastEvent' = KeyOnly

\* case "G"; a negative index panics as in moveTicket
jumpLast ==
  /\ activeColumn >= 0
  /\ IF Len(columnTickets) > activeColumn
     THEN LET n == Len(columnTickets[activeColumn + 1])
          IN  activeTicket' = IF n - 1 < 0 THEN 0 ELSE n - 1
     ELSE activeTicket' = activeTicket
  /\ activeColumn' = activeColumn
  /\ scrollOffset' = scrollOffset
  /\ lastEvent' = KeyOnly

\* the navigation keys of Model.handleNormalMode
navigate(key) ==
  /\ KeyEvent(key, "normal")
  /\ \/ key = "h" /\ moveColumn(-1)
     \/ key = "l" /\ moveColumn(1)
     \/ key = "j" /\ moveTicket(1)
     \/ key = "k" /\ moveTicket(-1)
     \/ key = "g" /\ jumpFirst
     \/ key = "G" /\ jumpLast
  /\ UNCHANGED <<boardVars, overlayVars, worldVars, mode, titleInput,
                 notification, quit, detectorVars, width, height,
                 formScrollOffset, ticketFormField>>

\* Model.createNewTicket
createNewTicket(key) ==
  /\ KeyEvent(key, "normal") /\ key = "n"
  /\ mode' = ModeCreateTicket
  /\ titleInput' = <<>>
  /\ lastEvent' = Event("key", Nil, "", FALSE, "none", {}, "Blink")
  /\ UNCHANGED <<boardVars, cursorVars, overlayVars, worldVars, notification,
                 quit, detectorVars, viewVars>>

\* case ":"
enterCommandMode(key) ==
  /\ KeyEvent(key, "normal") /\ key = ":"
  /\ mode' = ModeCommand
  /\ lastEvent' = KeyOnly
  /\ UNCHANGED <<boardVars, cursorVars, overlayVars, worldVars, titleInput,
                 notification, quit, detectorVars, viewVars>>

\* a key of Normal mode that no case of handleNormalMode matches
ignoredKey(key) ==
  /\ KeyEvent(key, "normal")
  /\ key \notin {"h", "l", "j", "k", "g", "G", "n", "enter", "d", " ", "s",
                 "S", ":"}
  /\ lastEvent' = KeyOnly
  /\ UNCHANGED <<boardVars, cursorVars, overlayVars, worldVars, mode,
                 titleInput, notification, quit, detectorVars, viewVars>>

\* Model.attachToAgent
attachToAgent(key) ==
  /\ KeyEvent(key, "normal") /\ key = "enter"
  /\ LET id == selectedTicket
     IN  IF id = Nil \/ tickets[id].TmuxSession = ""
         THEN /\ notification' = notify(NoteNoSession, notification)
              /\ lastEvent' = Event("attach", id, "nosession", FALSE, "none",
                                    {}, "none")
         ELSE /\ notification' = notification
              /\ lastEvent' = Event("attach", id, "", FALSE, "none", {},
                                    "ExecProcess")
  /\ UNCHANGED <<boardVars, cursorVars, overlayVars, worldVars, mode,
                 titleInput, quit, detectorVars, viewVars>>

\* Model.confirmDeleteTicket
confirmDeleteTicket(key) ==
  /\ KeyEvent(key, "normal") /\ key = "d"
  /\ LET id == selectedTicket
     IN  IF id = Nil
         THEN UNCHANGED <<showConfirm, confirmFn>>
         ELSE showConfirm' = TRUE /\ confirmFn' = id
  /\ lastEvent' = Event("confirmDelete", selectedTicket, "", FALSE, "none",
                        {}, "none")
  /\ UNCHANGED <<boardVars, cursorVars, worldVars, mode, showHelp, titleInput,
                 notification, quit, detectorVars, viewVars>>

\* variant: a ticket that reaches Done has its session closed
quickMoveTicket_StopsAgent(key) ==
  /\ KeyEvent(key, "normal") /\ key = " "
  /\ LET id == selectedTicket
     IN  IF id = Nil \/ nextStatus(tickets[id].Status) = tickets[id].Status
         THEN /\ lastEvent' = Event("quickMove", id, "nomove", FALSE, "none",
                                    {}, "none")
              /\ UNCHANGED <<boardVars, worldVars, notification>>
         ELSE \E saveOk \in BOOLEAN :
                LET next == nextStatus(tickets[id].Status)
                    tk == MoveTicket(tickets, id, next)
                IN  /\ tickets' =
                         IF next = StatusDone
                         THEN [tk EXCEPT ![id].AgentStatus = AgentNone]
                         ELSE tk
                    /\ tmux' =
                         IF next = StatusDone
                         THEN tmux \ {tickets[id].TmuxSession}
                         ELSE tmux
                    /\ columnTickets' = refreshColumnTickets(tk, nextId)
                    /\ notification' =
                         notify(NoteMoved, saveBoard(saveOk, notification))
                    /\ lastEvent' = Event("quickMove", id, "", TRUE,
                                          SaveOutcome(saveOk), {"file"}, "none")
                    /\ UNCHANGED <<nextId, worktrees>>
  /\ UNCHANGED <<cursorVars, overlayVars, mode, titleInput, quit, detectorVars,
                 viewVars>>

\* Model.quickMoveTicket
quickMoveTicket(key) ==
  /\ KeyEvent(key, "normal") /\ key = " "
  /\ LET id == selectedTicket
     IN  IF id = Nil \/ nextStatus(tickets[id].Status) = tickets[id].Status
         THEN /\ lastEvent' = Event("quickMove", id, "nomove", FALSE, "none",
                                    {}, "none")
              /\ UNCHANGED <<boardVars, worldVars, notification>>
         ELSE \E saveOk \in BOOLEAN :
                LET tk == MoveTicket(tickets, id, nextStatus(tickets[id].Status))
                IN  /\ tickets' = tk
                    /\ columnTickets' = refreshColumnTickets(tk, nextId)
                    /\ notification' =
                         notify(NoteMoved, saveBoard(saveOk, notification))
                    /\ lastEvent' = Event("quickMove", id, "", TRUE,
                                          SaveOutcome(saveOk), {"file"}, "none")
                    /\ UNCHANGED <<nextId, tmux, worktrees>>
  /\ UNCHANGED <<cursorVars, overlayVars, mode, titleInput, quit, detectorVars, viewVars>>

\* the results GetDefaultBranch has in the repository
DefaultBranches == {"main", "master"}

\* variant: the status of the ticket is not looked at
inProgress_Always(ticket) == TRUE

\* ticket.Status != board.StatusInProgress, negated
inProgress(ticket) == ticket.Status = StatusInProgress

\* Model.spawnAgent; baseBranch and wtOk are the results of GetDefaultBranch
\* and CreateWorktree, runOk that of tmux new-session
spawnAgent(key) ==
  /\ KeyEvent(key, "normal") /\ key = "s"
  /\ LET id == selectedTicket
     IN  IF id = Nil
         THEN /\ lastEvent' = Event("spawn", Nil, "noticket", FALSE, "none",
                                    {}, "none")
              /\ UNCHANGED <<boardVars, worldVars, notification>>
         ELSE IF ~inProgress(tickets[id])
         THEN /\ notification' = notify(NoteMoveFirst, notification)
              /\ lastEvent' = Event("spawn", id, "status", FALSE, "none", {},
                                    "none")
              /\ UNCHANGED <<boardVars, worldVars>>
         ELSE
           \E baseBranch \in DefaultBranches, wtOk, runOk, saveOk \in BOOLEAN :
             LET t0 == tickets[id]
                 t1 == [t0 EXCEPT !.TmuxSession = SessionOf(id)]
                 needWt == t1.WorktreePath = ""
                 branch == BranchOf(id)
                 t2 == IF needWt
                       THEN [t1 EXCEPT !.WorktreePath = WorktreePathOf(branch),
                                       !.BranchName = branch,
                                       !.BaseBranch = baseBranch]
                       ELSE t1
                 r == SpawnAgent(t2, DefaultAgent, runOk)
                 git == IF needWt THEN {"git"} ELSE {}
             IN  IF needWt /\ ~wtOk
                 THEN /\ tickets' = [tickets EXCEPT ![id] = t1]
                      /\ notification' = notify(NoteWorktreeFailed, notification)
                      /\ lastEvent' = Event("spawn", id, "worktree", t1 # t0,
                                            "none", git, "none")
                      /\ UNCHANGED <<nextId, columnTickets, worldVars>>
                 ELSE IF r.err
                 THEN /\ tickets' = [tickets EXCEPT ![id] = t2]
                      /\ worktrees' = worktrees \cup (IF needWt THEN {branch} ELSE {})
                      /\ notification' = notify(NoteSpawnFailed, notification)
                      /\ lastEvent' =
                           Event("spawn", id, "agent", t2 # t0, "none",
                                 git \cup (IF SpawnAgentCallsTmux(t2, DefaultAgent)
                                           THEN {"tmux"} ELSE {}),
                                 "none")
                      /\ UNCHANGED <<nextId, columnTickets, tmux>>
                 ELSE LET tk == [tickets EXCEPT ![id] = r.ticket]
                      IN  /\ tickets' = tk
                          /\ worktrees' = worktrees \cup (IF needWt THEN {branch} ELSE {})
                          /\ tmux' = r.tmux
                          /\ notification' =
                               notify(NoteSpawned, saveBoard(saveOk, notification))
                          /\ lastEvent' =
                               Event("spawn", id, "", TRUE, SaveOutcome(saveOk),
                                     git \cup {"tmux", "file"}, "none")
                          /\ UNCHANGED <<nextId, columnTickets>>
  /\ UNCHANGED <<cursorVars, overlayVars, mode, titleInput, quit, detectorVars, viewVars>>

\* Model.stopAgent
stopAgent(key) ==
  /\ KeyEvent(key, "normal") /\ key = "S"
  /\ LET id == selectedTicket
     IN  IF id = Nil
         THEN /\ lastEvent' = Event("stop", Nil, "noticket", FALSE, "none", {},
                                    "none")
              /\ UNCHANGED <<boardVars, worldVars, notification>>
         ELSE
           \E killOk, saveOk \in BOOLEAN :
             LET r == StopAgent(tickets[id], killOk)
                 io == IF tickets[id].TmuxSession = "" THEN {} ELSE {"tmux"}
             IN  IF r.err
                 THEN /\ notification' = notify(NoteStopFailed, notification)
                      /\ lastEvent' = Event("stop", id, "kill", FALSE, "none",
                                            io, "none")
                      /\ UNCHANGED <<boardVars, worldVars>>
                 ELSE LET tk == [tickets EXCEPT ![id] = r.ticket]
                      IN  /\ tickets' = tk
                          /\ tmux' = r.tmux
                          /\ notification' =
                               notify(NoteStopped, saveBoard(saveOk, notification))
                          /\ lastEvent' =
                               Event("stop", id, "", tk # tickets,
                                     SaveOutcome(saveOk), io \cup {"file"}, "none")
                          /\ UNCHANGED <<nextId, columnTickets, worktrees>>
  /\ UNCHANGED <<cursorVars, overlayVars, mode, titleInput, quit, detectorVars, viewVars>>

\* the tickets whose tmux session exists: the ones a poll looks at outside
LiveTickets ==
  {id \in DOMAIN tickets :
     tickets[id].TmuxSession # "" /\ SessionExists(tickets[id].TmuxSession)}

\* case agentStatusMsg: PollStatuses and the next tick
StatusTick ==
  /\ ~quit
  /\ \E found \in [LiveTickets -> PollFindings] :
       LET tk == PollStatuses(tickets, found)
           polled == {id \in DOMAIN tickets :
                        /\ tickets[id].Status = StatusInProgress
                        /\ tickets[id].TmuxSession # ""}
       IN  /\ tickets' = tk
           /\ lastEvent' =
                [Event("tick", Nil, "", tk # tickets, "none",
                       IF polled = {} THEN {} ELSE {"tmux", "file"},
                       "tickAgentStatus") EXCEPT !.found = found]
  /\ lastKey' = LogKey(NoKey)
  /\ UNCHANGED sideVars
  /\ UNCHANGED <<nextId, columnTickets, cursorVars, overlayVars, worldVars,
                 mode, titleInput, notification, quit, detectorVars, viewVars>>

(***************************************************************************)
(* Environment of the UI                                                   *)
(***************************************************************************)
\* the agent command of a session ends, and tmux closes the session
AgentExits(name) ==
  /\ name \in tmux
  /\ tmux' = tmux \ {name}
  /\ lastEvent' = NoEvent
  /\ lastKey' = LogKey(NoKey)
  /\ UNCHANGED sideVars
  /\ UNCHANGED <<boardVars, cursorVars, overlayVars, worktrees, mode,
                 titleInput, notification, quit, detectorVars, viewVars>>

\* NewModel: no window size yet, nothing scrolled, the title field focused
ViewInit ==
  /\ width = 0
  /\ height = 0
  /\ scrollOffset = 0
  /\ formScrollOffset = 0
  /\ ticketFormField = formFieldTitle

\* goroutines that call into the detector: two classify, one invalidates
Detectors == {"poll", "pane"}
Goroutines == Detectors \cup {"invalidate"}

\* a goroutine that is in no call
NotCalling == [pc |-> "idle", session |-> "", cached |-> NoEntry,
               status |-> AgentNone, readAt |-> 0, stale |-> FALSE]

\* an unlocked sync.RWMutex
Unlocked == [readers |-> {}, writer |-> ""]

\* NewOpencodeServer: not running, no command
NewOpencodeServer == [running |-> FALSE, cmd |-> "nil"]

\* nothing is in a call, the server object is new and no opencode runs
SideInit ==
  /\ statusCacheMu = Unlocked
  /\ calls = [g \in Goroutines |-> NotCalling]
  /\ cacheOrigin = [epoch |-> 0, entry |-> 0, served |-> "none"]
  /\ opencodeServer = NewOpencodeServer
  /\ opencodeProcs = [external |-> FALSE, children |-> 0, started |-> 0]

\* NewModel on an empty board, with no session and no worktree around
InitUI ==
  /\ tickets = <<>>
  /\ nextId = 0
  /\ columnTickets = refreshColumnTickets(<<>>, 0)
  /\ mode = ModeNormal
  /\ activeColumn = 0
  /\ activeTicket = 0
  /\ showHelp = FALSE
  /\ showConfirm = FALSE
  /\ confirmFn = Nil
  /\ titleInput = <<>>
  /\ notification = ""
  /\ quit = FALSE
  /\ tmux = {}
  /\ worktrees = {}
  /\ lastEvent = NoEvent
  /\ lastKey = KeyLogOff
  /\ ViewInit
  /\ SideInit

\* the detector is not part of the UI model's update cycle
DetectorIdle ==
  /\ statusCache = [s \in SessionNames \ {""} |-> NoEntry]
  /\ now = 0
  /\ statusFiles = [f \in StatusFileNames |-> NoFile]
  /\ lastCall = NoCall

InitModel == InitUI /\ DetectorIdle

NextUI ==
  \/ \E key \in Keys :
       \/ Quit(key)
       \/ Escape(key)
       \/ ToggleHelp(key)
       \/ CloseHelp(key)
       \/ handleConfirm(key)
       \/ handleCommandMode(key)
       \/ handleCreateTicketMode(key)
       \/ navigate(key)
       \/ createNewTicket(key)
       \/ enterCommandMode(key)
       \/ ignoredKey(key)
       \/ attachToAgent(key)
       \/ confirmDeleteTicket(key)
       \/ quickMoveTicket(key)
       \/ spawnAgent(key)
       \/ stopAgent(key)
  \/ StatusTick
  \/ \E name \in tmux : AgentExits(name)

SpecUI == InitModel /\ [][NextUI]_vars

(***************************************************************************)
(* The agents of a loaded board                                            *)
(***************************************************************************)
LoadedIds(n) == {TicketId(i) : i \in 1..n}

\* NewModel on a board loaded with n tickets that never had an agent
InitBoard(n) ==
  /\ \E st \in [LoadedIds(n) -> {StatusBacklog, StatusInProgress}] :
       tickets = [id \in LoadedIds(n) |->
                    [NewTicket(<<"a">>) EXCEPT !.Status = st[id]]]
  /\ nextId = n
  /\ columnTickets = refreshColumnTickets(tickets, n)
  /\ mode = ModeNormal
  /\ activeColumn = 0
  /\ activeTicket = 0
  /\ showHelp = FALSE
  /\ showConfirm = FALSE
  /\ confirmFn = Nil
  /\ titleInput = <<>>
  /\ notification = ""
  /\ quit = FALSE
  /\ tmux = {}
  /\ worktrees = {}
  /\ lastEvent = NoEvent
  /\ ViewInit
  /\ SideInit
  /\ DetectorIdle

\* the board is loaded with as many tickets as it will ever hold
InitLoaded == InitBoard(MaxTickets) /\ lastKey = KeyLogOff

\* moving between tickets, moving them on, spawning, stopping and polling
NextBoard ==
  \/ \E key \in Keys :
       \/ navigate(key)
       \/ quickMoveTicket(key)
       \/ spawnAgent(key)
       \/ stopAgent(key)
  \/ StatusTick
  \/ \E name \in tmux : AgentExits(name)

SpecBoard == InitLoaded /\ [][NextBoard]_vars

(***************************************************************************)
(* The environment Manager.SpawnAgent hands to the child                   *)
(***************************************************************************)
\* variable names, as sequences of the words they are made of
nTERM == <<"TERM">>
nPATH == <<"PATH">>
nOPENCODE == <<"OPENCODE">>
nCLAUDECODE == <<"CLAUDE", "CODE">>
nCLAUDE_CONFIG == <<"CLAUDE", "_", "CONFIG">>
nGEMINI_API_KEY == <<"GEMINI", "_", "API", "_", "KEY">>
nCODEX_HOME == <<"CODEX", "_", "HOME">>
nAGENT_MODE == <<"AGENT", "_", "MODE">>

\* one NAME=value entry
EnvEntry(name, value) == [name |-> name, value |-> value]

\* the entries os.Environ() may hold
ParentEntries ==
  {EnvEntry(nTERM, "dumb"), EnvEntry(nTERM, "xterm-256color"),
   EnvEntry(nPATH, "/usr/bin"), EnvEntry(nOPENCODE, "1"),
   EnvEntry(nCLAUDECODE, "1"), EnvEntry(nCLAUDE_CONFIG, "~/.claude"),
   EnvEntry(nGEMINI_API_KEY, "k"), EnvEntry(nCODEX_HOME, "~/.codex")}

\* bound on the number of variables of the parent process
MaxEnvLen == 2

\* os.Environ()
ParentEnvs ==
  UNION {[1..n -> ParentEntries] : n \in 0..MaxEnvLen}

\* agentCfg.Env of the configured agent
AgentEnvs == {<<>>, <<EnvEntry(nAGENT_MODE, "tui")>>}

\* cmd.Env = os.Environ() followed by the entries of agentCfg.Env
spawnEnv(parent, cfgEnv) == parent \o cfgEnv

\* Manager.SpawnAgent starts tmux new-session with spawnEnv
SpawnAgentEnv(parent, cfgEnv) ==
  /\ lastCall' = [op |-> "SpawnAgent", parent |-> parent, cfgEnv |-> cfgEnv,
                  env |-> spawnEnv(parent, cfgEnv)]
  /\ UNCHANGED <<statusCache, now, statusFiles, uiVars>>

NextEnv ==
  \E parent \in ParentEnvs, cfgEnv \in AgentEnvs : SpawnAgentEnv(parent, cfgEnv)

SpecEnv == InitModel /\ [][NextEnv]_vars

(***************************************************************************)
(* The window and View                                                     *)
(***************************************************************************)
\* the sizes the terminal reports: width and height
WindowSizes == {<<25, 24>>, <<50, 24>>, <<75, 50>>, <<100, 24>>}

\* case tea.WindowSizeMsg
Resize(w, h) ==
  /\ ~quit
  /\ width' = w
  /\ height' = h
  /\ lastEvent' = Event("resize", Nil, "", FALSE, "none", {}, "none")
  /\ lastKey' = LogKey(NoKey)
  /\ UNCHANGED sideVars
  /\ UNCHANGED <<boardVars, cursorVars, overlayVars, worldVars, mode,
                 titleInput, notification, quit, detectorVars, scrollOffset,
                 formScrollOffset, ticketFormField>>

\* Model.renderBoard: the columns [startCol, endCol) it draws and the
\* more-indicators it puts on their left and right
renderBoard ==
  LET visibleCols == VisibleCols(width)
      startCol == scrollOffset
      endCol == IF startCol + visibleCols < NumColumns
                THEN startCol + visibleCols ELSE NumColumns
  IN  [startCol |-> startCol, endCol |-> endCol,
       left |-> startCol > 0, right |-> endCol < NumColumns]

FormFields == formFieldTitle..formFieldProject

\* the lines renderTicketForm lays out for the new-ticket form, with a
\* description, a blocker list and a project list of one line each: the
\* first and the last line of every field, and the number of lines
fieldStartLines == <<0, 4, 8, 12, 16, 20, 24, 28, 32>>
fieldEndLines == <<3, 7, 11, 15, 19, 23, 27, 30, 34>>
totalLines == 35

\* border(2) + padding(2) + title+blanks(3) + footer+blanks(3)
formOverhead == 10

\* Model.formViewportHeight
formViewportHeight(h) == IF h - formOverhead < 10 THEN 10 ELSE h - formOverhead

\* Model.renderTicketForm: the value it assigns to m.formScrollOffset, for
\* the scroll offset off, the focused field and the height h
renderTicketForm(off, field, h) ==
  LET viewportHeight == formViewportHeight(h)
      needsScroll == totalLines > viewportHeight
      startLine == fieldStartLines[field + 1]
      endLine == fieldEndLines[field + 1]
      fieldHeight == endLine - startLine + 1
      effectiveViewport == viewportHeight - 2
      off1 == IF fieldHeight <= effectiveViewport
              THEN LET o == IF endLine >= off + effectiveViewport
                            THEN endLine - effectiveViewport + 1 ELSE off
                   IN  IF startLine < o THEN startLine ELSE o
              ELSE startLine
      maxOffset == IF totalLines - viewportHeight < 0 THEN 0
                   ELSE totalLines - viewportHeight
      off2 == IF off1 > maxOffset THEN maxOffset ELSE off1
  IN  IF needsScroll THEN (IF off2 < 0 THEN 0 ELSE off2) ELSE 0

\* Model.View: the loading screen while no size is known, else the board
\* with the Help overlay, the Confirm overlay or the ticket form over it
View ==
  /\ ~quit
  /\ formScrollOffset' =
       IF width = 0 \/ height = 0 \/ showHelp \/ showConfirm
          \/ mode # ModeCreateTicket
       THEN formScrollOffset
       ELSE renderTicketForm(formScrollOffset, ticketFormField, height)
  /\ lastEvent' = Event("view", Nil, "", FALSE, "none", {}, "none")
  /\ lastKey' = LogKey(NoKey)
  /\ UNCHANGED sideVars
  /\ UNCHANGED <<boardVars, cursorVars, overlayVars, worldVars, mode,
                 titleInput, notification, quit, detectorVars, width, height,
                 scrollOffset, ticketFormField>>

\* the focus of the ticket form moves to another field
focusFormField(field) ==
  /\ ~quit
  /\ mode = ModeCreateTicket /\ ~showHelp /\ ~showConfirm
  /\ ticketFormField' = field
  /\ lastEvent' = KeyOnly
  /\ lastKey' = LogKey(NoKey)
  /\ UNCHANGED sideVars
  /\ UNCHANGED <<boardVars, cursorVars, overlayVars, worldVars, mode,
                 titleInput, notification, quit, detectorVars, width, height,
                 scrollOffset, formScrollOffset>>

\* moving between columns, opening the form, resizing and rendering
NextView ==
  \/ \E key \in Keys :
       \/ navigate(key)
       \/ createNewTicket(key)
       \/ Escape(key)
  \/ \E size \in WindowSizes : Resize(size[1], size[2])
  \/ \E field \in FormFields : focusFormField(field)
  \/ View

SpecView == InitLoaded /\ [][NextView]_vars

(***************************************************************************)
(* Notifications                                                           *)
(***************************************************************************)
\* the commands Init and the branches of Update return
Commands ==
  {"none", "Quit", "Blink", "ExecProcess", "tickAgentStatus", "tickAnimation"}

\* the message a command delivers to Update when it has run
MsgOf(cmd) ==
  CASE cmd = "tickAgentStatus" -> "agentStatusMsg"
    [] cmd = "tickAnimation" -> "animationMsg"
    [] cmd = "Blink" -> "blinkMsg"
    [] cmd = "Quit" -> "QuitMsg"
    [] OTHER -> "nil"

\* 3 * time.Second, in units of 250 ms
notifyExpiry == 12

\* case notificationMsg: the notification the branch leaves when the last
\* notify is elapsed units of time old
notificationMsg(elapsed, shown) == IF elapsed > notifyExpiry THEN "" ELSE shown

\* a notificationMsg reaches Update only if some command delivers one; none
\* does, so the branch above is a step of no specification
notificationMsgSent == \E cmd \in Commands : MsgOf(cmd) = "notificationMsg"

\* the loaded board with the status tick re-armed for ever: every
\* agentStatusMsg branch returns the next tickAgentStatus
SpecNotify == InitLoaded /\ [][NextBoard]_vars /\ WF_vars(StatusTick)

(***************************************************************************)
(* The key handlers on their own                                           *)
(***************************************************************************)
\* Model.handleKey on the keys that start no agent and stop none, with no
\* tick between
\* one key of every case of handleKey, handleConfirm and the mode handlers
RoutedKeys ==
  {"q", "esc", "?", "l", "n", "enter", "d", " ", ":", "y", "Y", "N", "a"}

NextKeys ==
  \E key \in RoutedKeys :
    \/ Quit(key)
    \/ Escape(key)
    \/ ToggleHelp(key)
    \/ CloseHelp(key)
    \/ handleConfirm(key)
    \/ handleCommandMode(key)
    \/ handleCreateTicketMode(key)
    \/ navigate(key)
    \/ createNewTicket(key)
    \/ enterCommandMode(key)
    \/ ignoredKey(key)
    \/ attachToAgent(key)
    \/ confirmDeleteTicket(key)
    \/ quickMoveTicket(key)

\* the board is loaded with room for one more ticket, and the keys are logged
InitKeys == InitBoard(MaxTickets - 1) /\ lastKey = NoKey

SpecKeys == InitKeys /\ [][NextKeys]_vars

(***************************************************************************)
(* The configuration (internal/config): Config.Validate                    *)
(***************************************************************************)
\* agent names a configuration may define
AgentNames == {"claude", "custom"}

\* the executables exec.LookPath finds in PATH
PathExecutables == {"claude"}

\* exec.LookPath(command) returns no error
LookPath(command) == command \in PathExecutables

\* a template text, as the sequence of its parts; "{{" is an action that is
\* never closed
tplPlain == <<"fix", "{{.Title}}">>
tplBroken == <<"fix", "{{">>
tplBranch == <<"{prefix}", "/", "{slug}">>
tplNoPlaceholder == <<"work">>

\* agent entries, each the pair of its Command and its InitPrompt: no
\* command, a command in PATH, a command not in PATH
AgentEntries ==
  {<<"", tplPlain>>, <<"claude", tplBroken>>, <<"nonexistent-binary-12345", <<>>>>}

\* validateTemplate: template.Parse returns no error
validateTemplate(tmpl) == \A i \in 1..Len(tmpl) : tmpl[i] # "{{"

\* IsValidTheme
ThemeNames == {"catppuccin-mocha", "everforest"}

\* a ValidationError, without its message text
ValidationError(section, field, value) ==
  [Section |-> section, Field |-> field, Value |-> value]

\* the settings outside the agents and the opencode port: one set that
\* passes and one in which every check fires
SettingsGood ==
  [BranchNaming |-> "template", SlugMaxLength |-> 40,
   BranchTemplate |-> tplBranch, InitPrompt |-> tplPlain,
   Theme |-> "everforest", ColumnWidth |-> 30, TicketHeight |-> 3,
   RefreshInterval |-> 5, PollInterval |-> 1]
SettingsBad ==
  [BranchNaming |-> "random", SlugMaxLength |-> -1,
   BranchTemplate |-> tplNoPlaceholder, InitPrompt |-> tplBroken,
   Theme |-> "neon", ColumnWidth |-> 0, TicketHeight |-> 0,
   RefreshInterval |-> 0, PollInterval |-> -1]

\* opencode.server_port values: around both ends of the port range
ServerPorts == {-1, 0, 1, 65535, 65536}

\* ui.refresh_interval values, in seconds; 0 is the unset field
RefreshIntervals == {-1, 0, 1, 2, 60}

\* the configurations handed to Validate
Configs ==
  { [DefaultAgent |-> d, Agents |-> a, Settings |-> st, ServerPort |-> port] :
      d \in AgentNames \cup {""},
      a \in UNION {[names -> AgentEntries] : names \in SUBSET AgentNames},
      st \in {SettingsGood, SettingsBad},
      port \in ServerPorts }

\* the entry a check adds when its condition holds
AddWhen(cond, entry) == IF cond THEN {entry} ELSE {}

\* Config.validateDefaults: the errors and the warnings it adds
validateDefaults(c) ==
  LET st == c.Settings
  IN  [Errors |->
         AddWhen(st.BranchNaming \notin {"template", "ai", "prompt", ""},
                 ValidationError(<<"defaults">>, "branch_naming", st.BranchNaming))
         \cup AddWhen(st.SlugMaxLength < 0,
                 ValidationError(<<"defaults">>, "slug_max_length", st.SlugMaxLength))
         \cup AddWhen(c.DefaultAgent # "" /\ c.DefaultAgent \notin DOMAIN c.Agents,
                 ValidationError(<<"defaults">>, "default_agent", c.DefaultAgent))
         \cup AddWhen(st.InitPrompt # <<>> /\ ~validateTemplate(st.InitPrompt),
                 ValidationError(<<"defaults">>, "init_prompt", "nil")),
       Warnings |->
         AddWhen(/\ st.BranchTemplate # <<>>
                 /\ \A i \in 1..Len(st.BranchTemplate) :
                      st.BranchTemplate[i] \notin {"{slug}", "{prefix}"},
                 ValidationError(<<"defaults">>, "branch_template", st.BranchTemplate))]

\* Config.validateAgents: the loop over c.Agents
validateAgents(c) ==
  [Errors |->
     {ValidationError(<<"agents", name>>, "command", "nil") :
        name \in {n \in DOMAIN c.Agents : c.Agents[n][1] = ""}}
     \cup {ValidationError(<<"agents", name>>, "init_prompt", "nil") :
        name \in {n \in DOMAIN c.Agents :
                    /\ c.Agents[n][2] # <<>>
                    /\ ~validateTemplate(c.Agents[n][2])}},
   Warnings |->
     {ValidationError(<<"agents", name>>, "command", c.Agents[name][1]) :
        name \in {n \in DOMAIN c.Agents :
                    /\ c.Agents[n][1] # ""
                    /\ n = c.DefaultAgent
                    /\ ~LookPath(c.Agents[n][1])}}]

\* Config.validateUI
validateUI(c) ==
  LET st == c.Settings
  IN  [Errors |->
         AddWhen(st.ColumnWidth <= 0,
                 ValidationError(<<"ui">>, "column_width", st.ColumnWidth))
         \cup AddWhen(st.TicketHeight <= 0,
                 ValidationError(<<"ui">>, "ticket_height", st.TicketHeight))
         \cup AddWhen(st.RefreshInterval <= 0,
                 ValidationError(<<"ui">>, "refresh_interval", st.RefreshInterval)),
       Warnings |->
         AddWhen(st.Theme # "" /\ st.Theme \notin ThemeNames,
                 ValidationError(<<"ui">>, "theme", st.Theme))]

\* Config.validateOpencode
validateOpencode(c) ==
  [Errors |->
     AddWhen(c.ServerPort < 0 \/ c.ServerPort > 65535,
             ValidationError(<<"opencode">>, "server_port", c.ServerPort))
     \cup AddWhen(c.Settings.PollInterval < 0,
             ValidationError(<<"opencode">>, "poll_interval", c.Settings.PollInterval)),
   Warnings |-> {}]

\* Config.Validate: the ValidationResult, its two lists taken as sets
ValidationResult(c) ==
  LET parts == <<validateDefaults(c), validateAgents(c), validateUI(c),
                 validateOpencode(c)>>
  IN  [Errors |-> UNION {parts[i].Errors : i \in 1..4},
       Warnings |-> UNION {parts[i].Warnings : i \in 1..4}]

\* a call of Config.Validate
Validate(c) ==
  /\ lastCall' = [op |-> "Validate", config |-> c, result |-> ValidationResult(c)]
  /\ UNCHANGED <<statusCache, now, statusFiles, uiVars>>

\* variant: an interval that is not positive is read as one second
StatusPollIntervalValue_Floor(refreshInterval) ==
  IF refreshInterval <= 0 THEN 1 ELSE refreshInterval

\* Manager.StatusPollInterval, in seconds
StatusPollIntervalValue(refreshInterval) ==
  IF refreshInterval <= 0 THEN 5 ELSE refreshInterval

\* a call of Manager.StatusPollInterval on a manager whose configuration has
\* the given ui.refresh_interval
StatusPollInterval(refreshInterval) ==
  /\ lastCall' = [op |-> "StatusPollInterval", config |-> refreshInterval,
                  result |-> StatusPollIntervalValue(refreshInterval)]
  /\ UNCHANGED <<statusCache, now, statusFiles, uiVars>>

NextConfig ==
  \/ \E c \in Configs : Validate(c)
  \/ \E ri \in RefreshIntervals : StatusPollInterval(ri)

SpecConfig == InitModel /\ [][NextConfig]_vars

(***************************************************************************)
(* The detector under concurrent calls: readStatusFile and InvalidateCache *)
(* statement by statement, each goroutine at its own position              *)
(***************************************************************************)
\* how many InvalidateCache calls a behaviour holds
MaxInvalidations == 1

\* what the hooks write while calls are in flight
RaceContents == {txtWaiting, txtDone}

\* goroutine g moves to position pc with the locals changed as given
Goto(g, pc, locals) == calls' = [calls EXCEPT ![g] = [locals EXCEPT !.pc = pc]]

\* DetectStatus(sessionName, _, true) is called: readStatusFile begins
BeginDetect(g, sessionName) ==
  /\ calls[g].pc = "idle"
  /\ Goto(g, "rlock", [NotCalling EXCEPT !.session = sessionName])
  /\ UNCHANGED <<detectorVars, statusCacheMu, cacheOrigin, serverVars, modelVars>>

\* d.statusCacheMu.RLock(): waits while a writer holds the lock
RLock(g) ==
  /\ calls[g].pc = "rlock"
  /\ statusCacheMu.writer = ""
  /\ statusCacheMu' = [statusCacheMu EXCEPT !.readers = @ \cup {g}]
  /\ Goto(g, "lookup", calls[g])
  /\ UNCHANGED <<detectorVars, cacheOrigin, serverVars, modelVars>>

\* cached, exists := d.statusCache[sessionName]
Lookup(g) ==
  /\ calls[g].pc = "lookup"
  /\ Goto(g, "runlock",
          [calls[g] EXCEPT !.cached = statusCache[calls[g].session],
                           !.stale = /\ statusCache[calls[g].session] # NoEntry
                                     /\ cacheOrigin.entry < cacheOrigin.epoch])
  /\ UNCHANGED <<detectorVars, statusCacheMu, cacheOrigin, serverVars, modelVars>>

\* d.statusCacheMu.RUnlock()
RUnlock(g) ==
  /\ calls[g].pc = "runlock"
  /\ statusCacheMu' = [statusCacheMu EXCEPT !.readers = @ \ {g}]
  /\ Goto(g, "check", calls[g])
  /\ UNCHANGED <<detectorVars, cacheOrigin, serverVars, modelVars>>

\* if exists && time.Since(cached.timestamp) < d.cacheExpiration: return
ServeCached(g) ==
  /\ calls[g].pc = "check"
  /\ calls[g].cached # NoEntry
  /\ now - calls[g].cached.timestamp < cacheExpiration
  /\ Goto(g, "idle", NotCalling)
  /\ cacheOrigin' = [cacheOrigin EXCEPT
                       !.served = IF calls[g].stale THEN "stale" ELSE "fresh"]
  /\ UNCHANGED <<detectorVars, statusCacheMu, serverVars, modelVars>>

\* the loop over statusDirs, outside any lock
ReadDisk(g) ==
  /\ calls[g].pc = "check"
  /\ ~(/\ calls[g].cached # NoEntry
       /\ now - calls[g].cached.timestamp < cacheExpiration)
  /\ Goto(g, "lock",
          [calls[g] EXCEPT !.status = ScanStatusDirs(calls[g].session, 1, AgentNone),
                           !.readAt = cacheOrigin.epoch])
  /\ UNCHANGED <<detectorVars, statusCacheMu, cacheOrigin, serverVars, modelVars>>

\* d.statusCacheMu.Lock(): waits while anyone holds the lock
Lock(g) ==
  /\ calls[g].pc = "lock"
  /\ statusCacheMu = Unlocked
  /\ statusCacheMu' = [statusCacheMu EXCEPT !.writer = g]
  /\ Goto(g, IF g \in Detectors THEN "store" ELSE "delete", calls[g])
  /\ UNCHANGED <<detectorVars, cacheOrigin, serverVars, modelVars>>

\* d.statusCache[sessionName] = cachedStatus{status, time.Now()}
Store(g) ==
  /\ calls[g].pc = "store"
  /\ statusCache' = [statusCache EXCEPT ![calls[g].session] =
                       [status |-> calls[g].status, timestamp |-> now]]
  /\ cacheOrigin' = [cacheOrigin EXCEPT !.entry = calls[g].readAt]
  /\ Goto(g, "unlock", calls[g])
  /\ UNCHANGED <<now, statusFiles, lastCall, statusCacheMu, serverVars, modelVars>>

\* d.statusCacheMu.Unlock() and the return; a returned InvalidateCache is
\* counted
Unlock(g) ==
  /\ calls[g].pc = "unlock"
  /\ statusCacheMu' = [statusCacheMu EXCEPT !.writer = ""]
  /\ Goto(g, "idle", NotCalling)
  /\ cacheOrigin' = IF g \in Detectors THEN cacheOrigin
                    ELSE [cacheOrigin EXCEPT !.epoch = @ + 1]
  /\ UNCHANGED <<detectorVars, serverVars, modelVars>>

\* InvalidateCache(sessionName) is called
BeginInvalidate(g, sessionName) ==
  /\ calls[g].pc = "idle"
  /\ cacheOrigin.epoch < MaxInvalidations
  /\ Goto(g, "lock", [NotCalling EXCEPT !.session = sessionName])
  /\ UNCHANGED <<detectorVars, statusCacheMu, cacheOrigin, serverVars, modelVars>>

\* delete(d.statusCache, sessionName)
Delete(g) ==
  /\ calls[g].pc = "delete"
  /\ statusCache' = [statusCache EXCEPT ![calls[g].session] = NoEntry]
  /\ Goto(g, "unlock", calls[g])
  /\ UNCHANGED <<now, statusFiles, lastCall, statusCacheMu, cacheOrigin,
                 serverVars, modelVars>>

NextRace ==
  \/ \E g \in Detectors :
       \/ BeginDetect(g, "ok-t1")
       \/ RLock(g)
       \/ Lookup(g)
       \/ RUnlock(g)
       \/ ServeCached(g)
       \/ ReadDisk(g)
       \/ Store(g)
  \/ \E g \in Goroutines : Lock(g) \/ Unlock(g)
  \/ BeginInvalidate("invalidate", "ok-t1")
  \/ Delete("invalidate")
  \/ \E c \in RaceContents : HookWritesFile(statusDirs[2], "ok-t1", c)
  \/ Tick

SpecRace == InitModel /\ [][NextRace]_vars

(***************************************************************************)
(* OpencodeServer (internal/agent): Start, Stop, IsRunning                 *)
(***************************************************************************)
\* how many child processes a behaviour starts
MaxStarts == 2

\* isServerAlreadyRunning: something answers on the port
isServerAlreadyRunning == opencodeProcs.external \/ opencodeProcs.children > 0

\* the server object and the processes OpencodeServer.Start leaves behind:
\* enabled is config.Opencode.ServerEnabled, found is the result of
\* exec.LookPath, startOk that of cmd.Start and ready that of waitForReady;
\* cmd is "nil", "unstarted" (a command whose Process is nil) or "child"
StartValue(enabled, found, startOk, ready) ==
  IF opencodeServer.running \/ ~enabled \/ ~found
  THEN [server |-> opencodeServer, procs |-> opencodeProcs, err |-> FALSE]
  ELSE IF isServerAlreadyRunning
  THEN [server |-> [opencodeServer EXCEPT !.running = TRUE],
        procs |-> opencodeProcs, err |-> FALSE]
  ELSE IF ~startOk
  THEN [server |-> [opencodeServer EXCEPT !.cmd = "unstarted"],
        procs |-> opencodeProcs, err |-> TRUE]
  ELSE IF ~ready
  THEN [server |-> [opencodeServer EXCEPT !.cmd = "nil"],
        procs |-> [opencodeProcs EXCEPT !.started = @ + 1], err |-> TRUE]
  ELSE [server |-> [running |-> TRUE, cmd |-> "child"],
        procs |-> [opencodeProcs EXCEPT !.started = @ + 1, !.children = @ + 1],
        err |-> FALSE]

\* OpencodeServer.Start, under s.mu
Start(enabled, found, startOk, ready) ==
  LET r == StartValue(enabled, found, startOk, ready)
  IN  /\ opencodeProcs.started < MaxStarts
      /\ opencodeServer' = r.server
      /\ opencodeProcs' = r.procs
      /\ lastCall' = [op |-> "Start", before |-> opencodeServer, err |-> r.err,
                      args |-> <<enabled, found, startOk, ready>>]
      /\ UNCHANGED <<statusCache, now, statusFiles, lockVars, modelVars>>

\* OpencodeServer.Stop, under s.mu
Stop ==
  /\ IF ~opencodeServer.running \/ opencodeServer.cmd = "nil"
     THEN UNCHANGED serverVars
     ELSE /\ opencodeServer' = [running |-> FALSE, cmd |-> "nil"]
          /\ opencodeProcs' =
               IF opencodeServer.cmd = "child"
               THEN [opencodeProcs EXCEPT !.children = @ - 1]
               ELSE opencodeProcs
  /\ lastCall' = [op |-> "Stop", before |-> opencodeServer, err |-> FALSE,
                  args |-> <<>>]
  /\ UNCHANGED <<statusCache, now, statusFiles, lockVars, modelVars>>

\* OpencodeServer.IsRunning
IsRunning == opencodeServer.running

\* someone else starts or stops an opencode server on the port
ExternalServer(up) ==
  /\ opencodeProcs.external # up
  /\ opencodeProcs.children = 0 \/ ~up
  /\ opencodeProcs' = [opencodeProcs EXCEPT !.external = up]
  /\ lastCall' = NoCall
  /\ UNCHANGED <<statusCache, now, statusFiles, opencodeServer, lockVars, modelVars>>

NextServer ==
  \/ \E enabled, found, startOk, ready \in BOOLEAN :
       Start(enabled, found, startOk, ready)
  \/ Stop
  \/ \E up \in BOOLEAN : ExternalServer(up)

SpecServer == InitModel /\ [][NextServer]_vars

(***************************************************************************)
(* The cursors: boards of any number of columns, columns of two tickets    *)
(***************************************************************************)
\* the board has the first k columns and no ticket; the keys are logged
InitColumns ==
  /\ tickets = <<>>
  /\ nextId = 0
  /\ \E k \in 0..Len(Columns) : columnTickets = [i \in 1..k |-> <<>>]
  /\ mode = ModeNormal
  /\ activeColumn = 0
  /\ activeTicket = 0
  /\ showHelp = FALSE
  /\ showConfirm = FALSE
  /\ confirmFn = Nil
  /\ titleInput = <<>>
  /\ notification = ""
  /\ quit = FALSE
  /\ tmux = {}
  /\ worktrees = {}
  /\ lastEvent = NoEvent
  /\ lastKey = NoKey
  /\ ViewInit
  /\ SideInit
  /\ DetectorIdle

NextColumns ==
  \/ \E key \in {"h", "l", "j", "k", "g", "G"} : navigate(key)
  \/ \E size \in WindowSizes : Resize(size[1], size[2])

SpecColumns == InitColumns /\ [][NextColumns]_vars

\* how many tickets the board is loaded with when the ticket cursor is followed
CursorTickets == 2

CursorKeys == {"h", "l", "j", "k", "g", "G", "d", "y", "N", " "}

NextCursor ==
  \E key \in CursorKeys :
    \/ navigate(key)
    \/ confirmDeleteTicket(key)
    \/ handleConfirm(key)
    \/ quickMoveTicket(key)

\* the board is loaded with two tickets
InitCursor == InitBoard(CursorTickets) /\ lastKey = KeyLogOff

SpecCursor == InitCursor /\ [][NextCursor]_vars

(***************************************************************************)
(* The classifier on its own                                               *)
(***************************************************************************)
\* contents the hooks write while the clock runs
HookContents == {NoFile, txtWaiting, txtDone, txtBusy}

\* NewStatusDetector: an empty cache; the files are whatever is on disk
InitDetector ==
  /\ statusCache = [s \in SessionNames \ {""} |-> NoEntry]
  /\ now = 0
  /\ statusFiles \in [StatusFileNames -> HookContents]
  /\ lastCall = NoCall
  /\ InitUI

NextDetector ==
  \/ \E s \in SessionNames, c \in Screens, r \in BOOLEAN : DetectStatus(s, c, r)
  \/ \E s \in SessionNames : InvalidateCache(s)
  \/ \E i \in 1..2, s \in FileSessions, c \in HookContents :
       HookWritesFile(statusDirs[i], s, c)
  \/ Tick

SpecDetector == InitDetector /\ [][NextDetector]_vars

\* the classifier over every file content, with the clock standing still
InitClassify ==
  /\ statusCache = [s \in SessionNames \ {""} |-> NoEntry]
  /\ now = 0
  /\ statusFiles \in [StatusFileNames -> FileContents \cup {NoFile}]
  /\ lastCall = NoCall
  /\ InitUI

NextClassify ==
  \/ \E s \in SessionNames, c \in Screens, r \in BOOLEAN : DetectStatus(s, c, r)
  \/ \E s \in SessionNames : InvalidateCache(s)
  \/ \E s \in FileSessions, st \in AgentStatuses : WriteStatusFile(s, st)
  \/ \E s \in FileSessions : CleanupStatusFile(s)

SpecClassify == InitClassify /\ [][NextClassify]_vars

\* the cache under two sessions: the detector serves one pane per ticket
CacheSessions == {"", "ok-t1", "ok-t2"}

\* what the status file of ok-t1 holds while the cache is exercised
CacheContents == {NoFile, txtWaiting}

InitCache ==
  /\ statusCache = [s \in CacheSessions \ {""} |-> NoEntry]
  /\ now = 0
  /\ statusFiles \in [StatusFileNames -> {NoFile}]
  /\ lastCall = NoCall
  /\ InitUI

NextCache ==
  \/ \E s \in CacheSessions, c \in {scrThinking, scrConfirm}, r \in BOOLEAN :
       DetectStatus(s, c, r)
  \/ \E s \in CacheSessions : InvalidateCache(s)
  \/ \E c \in CacheContents : HookWritesFile(statusDirs[1], "ok-t1", c)
  \/ Tick

SpecCache == InitCache /\ [][NextCache]_vars

(***************************************************************************)
(* Screens for the heuristic                                               *)
(***************************************************************************)
\* working, waiting and idle indicators together
scrMixed ==
  <<"T", "h", "i", "n", "k", "i", "n", "g", "\n", "A", "l", "l", "o", "w",
    "?", " ", "(", "y", "/", "n", ")", "\n", "c", "l", "a", "u", "d", "e",
    ">", " ">>

\* a working indicator on the first of twelve rows, a prompt for
\* confirmation on the last
scrScrolled ==
  <<"T", "h", "i", "n", "k", "i", "n", "g", "\n", "#", "\n", "#", "\n",
    "#", "\n", "#", "\n", "#", "\n", "#", "\n", "#", "\n", "#", "\n", "#",
    "\n", "#", "\n", "(", "Y", "/", "N", ")">>

\* a working indicator on the first of eleven rows and nothing else
scrScrolledQuiet ==
  <<"T", "h", "i", "n", "k", "i", "n", "g", "\n", "#", "\n", "#", "\n",
    "#", "\n", "#", "\n", "#", "\n", "#", "\n", "#", "\n", "#", "\n", "#",
    "\n", "#">>

\* the prompt of the claude agent
scrClaude ==
  <<"c", "l", "a", "u", "d", "e", ">", " ">>

\* a shell prompt
scrShell ==
  <<"#", "\n", "$", " ">>

\* plain output
scrHello ==
  <<"h", "e", "l", "l", "o">>

\* blank rows only
scrNewlines ==
  <<"\n", "\n">>

\* blank rows of spaces
scrSpaces ==
  <<" ", "\n", " ">>

\* a waiting indicator in capitals
scrPress ==
  <<"#", "#", " ", "P", "R", "E", "S", "S">>

\* a spinner glyph after a prompt
scrSpinner ==
  <<"$", " ", "U+280B">>

HeuristicScreens ==
  {<<>>, scrThinking, scrConfirm, scrHash, scrMixed, scrScrolled,
   scrScrolledQuiet, scrClaude, scrShell, scrHello, scrNewlines, scrSpaces,
   scrPress, scrSpinner}

\* what the status files hold while the heuristic is exercised
ScreenContents == {NoFile, txtWaiting}

InitScreen ==
  /\ statusCache = [s \in SessionNames \ {""} |-> NoEntry]
  /\ now = 0
  /\ statusFiles \in [StatusFileNames -> ScreenContents]
  /\ lastCall = NoCall
  /\ InitUI

NextScreen ==
  \/ \E s \in SessionNames, c \in HeuristicScreens, r \in BOOLEAN :
       DetectStatus(s, c, r)
  \/ \E s \in SessionNames : InvalidateCache(s)
  \/ \E s \in FileSessions : CleanupStatusFile(s)

SpecScreen == InitScreen /\ [][NextScreen]_vars

(***************************************************************************)
(* Properties of the status classifier                                     *)
(***************************************************************************)
Detected == lastCall.op = "DetectStatus"

\* the cache held an unexpired entry for the session when the call was made
\* (DetectStatus leaves the clock alone, so now is the time of the call)
FreshBefore ==
  /\ lastCall.before # NoEntry
  /\ now - lastCall.before.timestamp < cacheExpiration

\* the tokens of the status-file format and the status each one names
RecognisedTokens ==
  {tokWorking, tokDone, tokIdle, tokWaiting, tokPermission, tokError,
   tokCompleted}

TokenStatus(tok) ==
  CASE tok = tokWorking -> AgentWorking
    [] tok = tokDone -> AgentIdle
    [] tok = tokIdle -> AgentIdle
    [] tok = tokWaiting -> AgentWaiting
    [] tok = tokPermission -> AgentWaiting
    [] tok = tokError -> AgentError
    [] tok = tokCompleted -> AgentCompleted

\* the file of directory i for the session of the last call holds a token
HoldsToken(i) ==
  LET f == ReadFile(statusDirs[i], lastCall.session)
  IN  f # NoFile /\ TrimSpace(f) \in RecognisedTokens

FileStatus(i) == TokenStatus(TrimSpace(ReadFile(statusDirs[i], lastCall.session)))

\* C1: DetectStatus returns None whenever processRunning is false, whatever
\* the session name, the screen, the status files and the cache hold.
C1_NotRunningIsNone ==
  (Detected /\ ~lastCall.running) => lastCall.result = AgentNone

\* a call for a dead pane whose status file says waiting and whose cache
\* entry is unexpired
C1_Witness ==
  /\ Detected /\ ~lastCall.running
  /\ lastCall.session = "ok-t1"
  /\ statusFiles[<<statusDirs[1], "ok-t1">>] = txtWaiting
  /\ FreshBefore /\ lastCall.before.status = AgentWaiting
  /\ lastCall.content = scrThinking

\* C2: for a running pane, on a call that reads the status files (non-empty
\* session name, no unexpired cache entry), if one of the two files holds a
\* recognised token the result is the status named by the first such file,
\* claude-status before openkanban-status, whatever the screen shows.
C2_FirstStatusFileWins ==
  (Detected /\ lastCall.running /\ lastCall.session # "" /\ ~FreshBefore
     /\ (HoldsToken(1) \/ HoldsToken(2)))
  => lastCall.result = (IF HoldsToken(1) THEN FileStatus(1) ELSE FileStatus(2))

\* the screen says Working, the first file is unrecognised, the second says
\* waiting: the result is Waiting
C2_Witness ==
  /\ Detected /\ lastCall.running /\ lastCall.session = "ok-t1" /\ ~FreshBefore
  /\ analyzeTerminalContent(lastCall.content) = AgentWorking
  /\ statusFiles[<<statusDirs[1], "ok-t1">>] = txtBusy
  /\ statusFiles[<<statusDirs[2], "ok-t1">>] = txtWaiting
  /\ lastCall.result = AgentWaiting

NoFileHoldsToken == ~HoldsToken(1) /\ ~HoldsToken(2)

\* C3 as stated: with no status file, or only unrecognised ones, DetectStatus
\* for a running pane returns the result of the screen heuristic.
C3_Original ==
  (Detected /\ lastCall.running /\ NoFileHoldsToken)
  => lastCall.result = analyzeTerminalContent(lastCall.content)

\* C3 amended: the same, on a call that reads the status files, that is one
\* that finds no unexpired cache entry for the session.
C3_FallThroughOnFreshRead ==
  (Detected /\ lastCall.running /\ NoFileHoldsToken /\ ~FreshBefore)
  => lastCall.result = analyzeTerminalContent(lastCall.content)

\* an expired entry, one unrecognised file, one missing file: the heuristic
\* decides
C3_Witness ==
  /\ Detected /\ lastCall.running /\ lastCall.session = "ok-t1"
  /\ lastCall.before # NoEntry /\ ~FreshBefore
  /\ statusFiles[<<statusDirs[1], "ok-t1">>] = NoFile
  /\ statusFiles[<<statusDirs[2], "ok-t1">>] = txtBusy
  /\ lastCall.content = scrConfirm
  /\ lastCall.result = AgentWaiting

(***************************************************************************)
(* Properties of the status cache                                          *)
(***************************************************************************)
\* C11: a DetectStatus for a running pane that directly follows a
\* DetectStatus for the same session and a running pane, with no time
\* passing in between (so well within the 500 ms window), returns the same
\* value as the first, whatever screen it is handed.
C11_SecondCallSame ==
  [][(/\ lastCall.op = "DetectStatus" /\ lastCall.running
      /\ lastCall.session # ""
      /\ lastCall'.op = "DetectStatus" /\ lastCall'.running
      /\ lastCall'.session = lastCall.session
      /\ now' = now)
     => lastCall'.result = lastCall.result]_vars

\* the step is a DetectStatus for session s and a running pane
DetectsRunning(s) ==
  /\ lastCall'.op = "DetectStatus"
  /\ lastCall'.session = s
  /\ lastCall'.running

\* C12 as stated: the DetectStatus that follows InvalidateCache(session), or
\* InvalidateCache of the empty name, stores an entry for the session whose
\* timestamp is not earlier than the invalidation.
C12_Original ==
  [][(/\ lastCall.op = "InvalidateCache"
      /\ lastCall'.op = "DetectStatus"
      /\ lastCall'.session # ""
      /\ lastCall.session \in {"", lastCall'.session})
     => /\ statusCache'[lastCall'.session] # NoEntry
        /\ statusCache'[lastCall'.session].timestamp >= now]_vars

\* C12 amended: InvalidateCache(session) removes the entry of the session and
\* leaves every other entry unchanged, InvalidateCache of the empty name
\* removes all; the clock never runs backwards; a removed entry stays removed
\* until a DetectStatus for that session and a running pane, and that call
\* re-reads the status files, decides from what they hold now and stores an
\* entry whose timestamp is not earlier than the time of the call, hence not
\* earlier than the invalidation.
C12_InvalidateThenFresh ==
  [][/\ now' >= now
     /\ lastCall'.op = "InvalidateCache"
        => \A s \in DOMAIN statusCache :
             statusCache'[s] = IF lastCall'.session \in {"", s}
                               THEN NoEntry ELSE statusCache[s]
     /\ \A s \in DOMAIN statusCache :
          statusCache[s] = NoEntry
          => IF DetectsRunning(s)
             THEN LET read == ScanStatusDirs(s, 1, AgentNone)
                  IN  /\ statusCache'[s] # NoEntry
                      /\ statusCache'[s].timestamp >= now
                      /\ statusCache'[s].status = read
                      /\ lastCall'.result =
                           IF read # AgentNone THEN read
                           ELSE analyzeTerminalContent(lastCall'.content)
             ELSE statusCache'[s] = NoEntry]_vars

\* InvalidateCache("ok-t1") has removed an entry while ok-t2 kept its own
C12_Witness ==
  /\ lastCall.op = "InvalidateCache"
  /\ lastCall.session = "ok-t1"
  /\ lastCall.before # NoEntry
  /\ statusCache["ok-t1"] = NoEntry
  /\ statusCache["ok-t2"] # NoEntry
  /\ now > 0

(***************************************************************************)
(* Properties of the screen heuristic                                      *)
(***************************************************************************)
\* the last 10 rows of a screen
LastRows(content) ==
  LET rows == SplitLines(content)
  IN  IF Len(rows) > RecentLines
      THEN JoinLines(SubSeq(rows, Len(rows) - RecentLines + 1, Len(rows)))
      ELSE content

\* a working indicator occurs in the last 10 rows
ShowsWorking(content) ==
  \E i \in 1..Len(workingIndicators) :
    Contains(LastRows(content), workingIndicators[i])

\* a waiting indicator occurs in the last 10 rows as a substring, compared
\* case-insensitively
ShowsWaiting(content) ==
  \E i \in 1..Len(waitingIndicators) :
    Contains(ToLower(LastRows(content)), ToLower(waitingIndicators[i]))

\* the last row that is not blank, as it stands on the screen
RECURSIVE LastRow(_, _)
LastRow(rows, i) ==
  IF i < 1 THEN <<>>
  ELSE IF TrimSpace(rows[i]) # <<>> THEN rows[i] ELSE LastRow(rows, i - 1)

\* the last non-blank row ends with an idle-prompt suffix, or holds a product
\* prompt or a "how can I help" phrase
ShowsIdlePrompt(content) ==
  LET rows == SplitLines(content)
      row == LastRow(rows, Len(rows))
  IN  \/ \E i \in 1..6 : HasSuffix(row, idlePrompts[i])
      \/ \E i \in 7..Len(idlePrompts) :
           Contains(ToLower(row), ToLower(idlePrompts[i]))

\* a call for a running pane that finds no recognised status file
HeuristicCall == Detected /\ lastCall.running /\ NoFileHoldsToken

\* C13 as stated: for a running pane with no recognised status file, a
\* working indicator in the last 10 rows makes the result Working.
C13_Original ==
  (HeuristicCall /\ ShowsWorking(lastCall.content))
  => lastCall.result = AgentWorking

\* C13 amended: the same on a call that reads the status files (no unexpired
\* cache entry); and when the last 10 rows hold no working indicator but a
\* waiting one, indicator text above them does not make the result Working.
C13_WorkingIndicatorWins ==
  (HeuristicCall /\ ~FreshBefore)
  => /\ ShowsWorking(lastCall.content) => lastCall.result = AgentWorking
     /\ (~ShowsWorking(lastCall.content) /\ ShowsWaiting(lastCall.content))
        => lastCall.result = AgentWaiting

\* Thinking on the first of twelve rows and a question on the last: Waiting
C13_Witness ==
  /\ HeuristicCall /\ ~FreshBefore
  /\ lastCall.session = "ok-t1"
  /\ lastCall.content = scrScrolled
  /\ lastCall.result = AgentWaiting

\* C14: on a call decided by the screen heuristic the result is Waiting
\* exactly when the last 10 rows hold no working indicator and hold one of
\* the waiting indicators as a substring, compared case-insensitively.
C14_WaitingIffIndicator ==
  (HeuristicCall /\ ~FreshBefore)
  => (lastCall.result = AgentWaiting
      <=> (~ShowsWorking(lastCall.content) /\ ShowsWaiting(lastCall.content)))

\* C15: on a call decided by the screen heuristic, with no working and no
\* waiting indicator on screen, an idle prompt on the last non-blank row
\* makes the result Idle.
C15_IdlePrompt ==
  (/\ HeuristicCall /\ ~FreshBefore
   /\ ~ShowsWorking(lastCall.content) /\ ~ShowsWaiting(lastCall.content)
   /\ ShowsIdlePrompt(lastCall.content))
  => lastCall.result = AgentIdle

\* C16: on a call decided by the screen heuristic, a screen with no working
\* indicator, no waiting indicator and no idle prompt, the empty and the
\* all-blank screen included, is classified Working.
C16_DefaultWorking ==
  (/\ HeuristicCall /\ ~FreshBefore
   /\ ~ShowsWorking(lastCall.content) /\ ~ShowsWaiting(lastCall.content)
   /\ ~ShowsIdlePrompt(lastCall.content))
  => lastCall.result = AgentWorking

(***************************************************************************)
(* Properties of the UI model and its agent sessions                       *)
(***************************************************************************)
\* C4: in every reachable state a ticket has a non-empty session id exactly
\* when an agent session with that id exists: every session id on a ticket
\* names a live session, and every live session is named by a ticket.
C4_SessionIffPane ==
  /\ \A id \in DOMAIN tickets :
       tickets[id].TmuxSession # "" => tickets[id].TmuxSession \in tmux
  /\ \A name \in tmux :
       \E id \in DOMAIN tickets : tickets[id].TmuxSession = name

\* C5: once the deletion callback (d, then y) has removed a ticket, no
\* session belonging to that ticket remains.
C5_DeleteClosesSession ==
  (lastEvent.op = "confirmYes" /\ lastEvent.ticket # Nil)
  => SessionOf(lastEvent.ticket) \notin tmux

\* C6: when worktree creation or agent start fails during spawn, the step
\* ends in Normal mode with a failure notification, the ticket's session id
\* is not left set without a running session, and a worktree that was
\* created stays.
C6_SpawnFailureRollsBack ==
  (lastEvent.op = "spawn" /\ lastEvent.fail \in {"worktree", "agent"})
  => LET t == tickets[lastEvent.ticket]
     IN  /\ mode = ModeNormal
         /\ notification \in {NoteWorktreeFailed, NoteSpawnFailed}
         /\ t.TmuxSession # "" => t.TmuxSession \in tmux
         /\ t.WorktreePath # "" => t.BranchName \in worktrees

\* C7: after Stop succeeded on the selected ticket its session id is empty,
\* no session of the ticket remains and its agent status is None.
C7_StopClearsSession ==
  (lastEvent.op = "stop" /\ lastEvent.ticket # Nil /\ lastEvent.fail = "")
  => LET t == tickets[lastEvent.ticket]
     IN  /\ t.TmuxSession = ""
         /\ SessionOf(lastEvent.ticket) \notin tmux
         /\ t.AgentStatus = AgentNone

\* C8: the program has exited only when every agent session the UI started
\* has been closed.
C8_QuitClosesAgents == quit => tmux = {}

\* C9: no update step makes a blocking call (tmux, git, file I/O) itself.
C9_UpdateNeverBlocks == lastEvent.blocking = {}

\* the handlers of user-originated mutations
UserOps == {"create", "quickMove", "confirmYes", "spawn", "stop"}

\* C10: a step that changed the board on the user's behalf called Save, and
\* when that Save failed the notification at the end of the step reports it.
C10_SaveFailureReported ==
  lastEvent.op \in UserOps
  => /\ lastEvent.mutated => lastEvent.saved # "none"
     /\ lastEvent.saved = "failed" => notification = NoteSaveFailed

\* C17: after a status-poll tick every ticket that has an active agent
\* session, in whatever column, carries the status the classifier returns
\* for it, and the handler has scheduled the next poll tick.
C17_TickClassifiesAll ==
  lastEvent.op = "tick"
  => /\ \A id \in DOMAIN tickets :
          (tickets[id].TmuxSession # "" /\ SessionExists(tickets[id].TmuxSession))
          => tickets[id].AgentStatus = GetStatus(tickets[id], lastEvent.found[id])
     /\ lastEvent.cmd = "tickAgentStatus"

\* C18: every ticket's agent status is one of None, Idle, Working, Waiting,
\* Completed, Error.
C18_AgentStatusInEnum ==
  \A id \in DOMAIN tickets : tickets[id].AgentStatus \in AgentStatuses

\* C19: s on a selected ticket whose status is not InProgress only posts a
\* notification: the tickets (session ids included), the tmux sessions and
\* the worktrees are as before, nothing is saved, no external call is made
\* and the mode is Normal.
C19_SpawnNeedsInProgress ==
  [][(/\ lastEvent'.op = "spawn"
      /\ lastEvent'.ticket # Nil
      /\ tickets[lastEvent'.ticket].Status # StatusInProgress)
     => /\ tickets' = tickets
        /\ tmux' = tmux
        /\ worktrees' = worktrees
        /\ notification' = NoteMoveFirst
        /\ mode' = ModeNormal
        /\ lastEvent'.saved = "none"
        /\ lastEvent'.blocking = {}]_vars

\* s was pressed on a Backlog ticket: it has no session id and nothing runs
C19_Witness ==
  /\ lastEvent.op = "spawn"
  /\ lastEvent.ticket = "t1"
  /\ tickets["t1"].Status = StatusBacklog
  /\ tickets["t1"].TmuxSession = ""
  /\ notification = NoteMoveFirst
  /\ tmux = {} /\ worktrees = {}

\* C20: no step changes the worktree_path, branch_name or base_branch of a
\* ticket whose worktree_path is non-empty, for as long as the ticket exists.
C20_WorktreeImmutable ==
  [][\A id \in DOMAIN tickets \cap DOMAIN tickets' :
       tickets[id].WorktreePath # ""
       => /\ tickets'[id].WorktreePath = tickets[id].WorktreePath
          /\ tickets'[id].BranchName = tickets[id].BranchName
          /\ tickets'[id].BaseBranch = tickets[id].BaseBranch]_vars

\* an agent was spawned again on a ticket that already had its worktree
\* (no git call in the step), created from master
C20_Witness ==
  /\ lastEvent.op = "spawn" /\ lastEvent.fail = ""
  /\ lastEvent.ticket = "t1"
  /\ "git" \notin lastEvent.blocking
  /\ tickets["t1"].WorktreePath # ""
  /\ tickets["t1"].BaseBranch = "master"

(***************************************************************************)
(* Moving a ticket on                                                      *)
(***************************************************************************)
\* the place of a status in Backlog, InProgress, Done
StatusRank(status) ==
  IF status = StatusBacklog THEN 1
  ELSE IF status = StatusInProgress THEN 2
  ELSE 3

\* C21: Space moves the selected ticket exactly one step along Backlog,
\* InProgress, Done and touches no other ticket; on a Done ticket it changes
\* no status, saves nothing and posts no notification; and no Space press
\* moves any ticket to an earlier status.
C21_SpaceMovesOneStep ==
  [][lastEvent'.op = "quickMove"
     => /\ DOMAIN tickets' = DOMAIN tickets
        /\ \A i \in DOMAIN tickets :
             StatusRank(tickets'[i].Status) >= StatusRank(tickets[i].Status)
        /\ LET id == selectedTicket
           IN  /\ \A i \in DOMAIN tickets \ {id} : tickets'[i] = tickets[i]
               /\ id # Nil =>
                    IF tickets[id].Status = StatusDone
                    THEN /\ tickets' = tickets
                         /\ notification' = notification
                         /\ lastEvent'.saved = "none"
                    ELSE StatusRank(tickets'[id].Status) =
                           StatusRank(tickets[id].Status) + 1]_vars

\* C21 witness: Space was pressed on a ticket that is Done.
C21_Witness ==
  /\ lastEvent.op = "quickMove"
  /\ lastEvent.ticket # Nil
  /\ lastEvent.fail = "nomove"
  /\ tickets[lastEvent.ticket].Status = StatusDone

GlobalKey(key, m) ==
  \/ key \in {"esc", "?"}
  \/ key \in {"q", "ctrl+c"} /\ m = ModeNormal

\* C24: while the Help or the Confirm overlay is shown, a key that is not a
\* global key moves no cursor, changes no mode, types nothing into the title
\* and changes no ticket, except that y or Y, with Confirm shown and Help
\* hidden, runs the deletion callback.
C24_OverlayTakesKeys ==
  [][(/\ showHelp \/ showConfirm
      /\ lastKey'.key # ""
      /\ ~GlobalKey(lastKey'.key, mode))
     => /\ activeColumn' = activeColumn
        /\ activeTicket' = activeTicket
        /\ mode' = mode
        /\ titleInput' = titleInput
        /\ ~quit'
        /\ tmux' = tmux
        /\ tickets' # tickets
           => /\ ~showHelp
              /\ lastKey'.key \in {"y", "Y"}
              /\ tickets' = DeleteTicket(tickets, confirmFn)
        /\ showHelp => (showConfirm' = showConfirm /\ ~showHelp')]_vars

\* C24 witness: a key of Normal mode was pressed while an overlay was shown.
C24_Witness ==
  /\ lastKey.key \in {" ", "l", "enter", "d"}
  /\ lastKey.showHelp \/ lastKey.showConfirm
  /\ lastKey.mode = ModeNormal

\* C25: Esc pressed in a mode other than Normal, whatever overlay is open,
\* leaves Normal mode with the Help and the Confirm overlay closed and the
\* board as it was (no callback has run).
C25_EscReturnsToNormal ==
  [][(lastKey'.key = "esc" /\ mode # ModeNormal)
     => /\ mode' = ModeNormal
        /\ ~showHelp'
        /\ ~showConfirm'
        /\ tickets' = tickets
        /\ columnTickets' = columnTickets
        /\ lastEvent'.op # "confirmYes"]_vars

\* C25 witness: Esc has been pressed in the create form with Help open.
C25_Witness ==
  /\ lastKey.key = "esc"
  /\ lastKey.mode = ModeCreateTicket
  /\ lastKey.showHelp
  /\ mode = ModeNormal

\* C26: while the Help overlay is shown, every key press, q, Ctrl+C and ?
\* included, leaves the overlay hidden.
C26_AnyKeyClosesHelp ==
  [][(showHelp /\ lastKey'.key # "") => ~showHelp']_vars

(***************************************************************************)
(* Notifications expire                                                    *)
(***************************************************************************)
\* C27: every notification posted by notify is cleared in the end: from a
\* state that shows a notification the program reaches a state that shows
\* none.
C27_NotificationExpires == (notification # "") ~> (notification = "")

(***************************************************************************)
(* Rendering                                                               *)
(***************************************************************************)
\* C28: in every reachable state the active column is one of the columns
\* renderBoard draws, [scrollOffset, scrollOffset + visibleColumnCount), and
\* the left (right) more-indicator is drawn exactly when a column to the left
\* (right) of the drawn ones exists.
C28_ActiveColumnVisible ==
  LET r == renderBoard
  IN  /\ scrollOffset <= activeColumn
      /\ activeColumn < scrollOffset + VisibleCols(width)
      /\ r.left <=> (\E c \in 0..(Len(Columns) - 1) : c < r.startCol)
      /\ r.right <=> (\E c \in 0..(Len(Columns) - 1) : c >= r.endCol)

\* C29: a call of View changes no field of the model.
C29_ViewIsPure ==
  [][lastEvent'.op = "view"
     => /\ formScrollOffset' = formScrollOffset
        /\ scrollOffset' = scrollOffset
        /\ ticketFormField' = ticketFormField
        /\ tickets' = tickets]_vars

(***************************************************************************)
(* The environment of the agent process                                    *)
(***************************************************************************)
VendorPrefixes == {"OPENCODE", "CLAUDE", "GEMINI", "CODEX"}

\* the name equals a vendor prefix or begins with one
VendorName(name) == Len(name) > 0 /\ name[1] \in VendorPrefixes

\* the value the child sees for a name: the last entry wins
EffectiveValue(env, name) ==
  LET hits == {i \in 1..Len(env) : env[i].name = name}
  IN  IF hits = {} THEN "unset"
      ELSE env[CHOOSE i \in hits : \A j \in hits : j <= i].value

\* C30: the environment an agent process is started with has
\* TERM=xterm-256color as the effective TERM value, holds no variable whose
\* name equals or begins with OPENCODE, CLAUDE, GEMINI or CODEX, and holds
\* every other variable of the parent unchanged.
C30_CleanEnv ==
  lastCall.op = "SpawnAgent"
  => LET env == lastCall.env
     IN  /\ EffectiveValue(env, nTERM) = "xterm-256color"
         /\ \A i \in 1..Len(env) : ~VendorName(env[i].name)
         /\ \A i \in 1..Len(lastCall.parent) :
              LET e == lastCall.parent[i]
              IN  (~VendorName(e.name) /\ e.name # nTERM)
                  => EffectiveValue(env, e.name) = e.value


(***************************************************************************)
(* Properties of the status file format                                    *)
(***************************************************************************)
\* the five statuses WriteStatusFile has a token for
WrittenStatuses ==
  {AgentWorking, AgentIdle, AgentWaiting, AgentCompleted, AgentError}

\* the five tokens of the status-file format written by openkanban
WrittenTokens == {tokWorking, tokIdle, tokWaiting, tokCompleted, tokError}

\* the token that names a status of board.AgentStatus
TokenStatusName(status) ==
  CASE status = AgentWorking -> tokWorking
    [] status = AgentIdle -> tokIdle
    [] status = AgentWaiting -> tokWaiting
    [] status = AgentCompleted -> tokCompleted
    [] status = AgentError -> tokError

\* the openkanban-status file of a session
OwnStatusFile(sessionName) == ReadFile(statusDirs[2], sessionName)

\* C31: WriteStatusFile(session, s), for s one of Working, Idle, Waiting,
\* Completed and Error, leaves in the openkanban-status file of the session
\* exactly the token naming s followed by one newline; whatever the status,
\* the file holds one of the five tokens and a newline; and a DetectStatus
\* for a running pane of that session that directly follows the write, is
\* not served from the cache and finds no claude-status file returns s.
C31_WriteThenClassify ==
  [][/\ lastCall'.op = "WriteStatusFile"
        => LET written == statusFiles'[<<statusDirs[2], lastCall'.session>>]
           IN  /\ \E tok \in WrittenTokens : written = tok \o <<"\n">>
               /\ lastCall'.result \in WrittenStatuses
                  => written = TokenStatusName(lastCall'.result) \o <<"\n">>
     /\ (/\ lastCall.op = "WriteStatusFile"
         /\ lastCall.result \in WrittenStatuses
         /\ lastCall'.op = "DetectStatus"
         /\ lastCall'.running
         /\ lastCall'.session = lastCall.session
         /\ ~CacheFresh(lastCall.session)
         /\ ReadFile(statusDirs[1], lastCall.session) = NoFile)
        => lastCall'.result = lastCall.result]_vars

\* Completed was written and the uncached classification that followed,
\* with no claude-status file, returned Completed
C31_Witness ==
  /\ lastCall.op = "DetectStatus"
  /\ lastCall.running
  /\ lastCall.before = NoEntry
  /\ lastCall.result = AgentCompleted
  /\ ReadFile(statusDirs[1], lastCall.session) = NoFile
  /\ OwnStatusFile(lastCall.session) = txtCompleted


(***************************************************************************)
(* Properties of the configuration                                         *)
(***************************************************************************)
Validated == lastCall.op = "Validate"

\* C32: for every agent of the configuration, the default agent or not,
\* whose command is non-empty and not found in PATH, Validate adds a warning
\* with section agents.<name> and field command, and no error for that
\* command.
C32_CommandNotInPathWarns ==
  Validated
  => \A name \in DOMAIN lastCall.config.Agents :
       LET command == lastCall.config.Agents[name][1]
       IN  (command # "" /\ command \notin PathExecutables)
           => /\ \E w \in lastCall.result.Warnings :
                   w.Section = <<"agents", name>> /\ w.Field = "command"
              /\ ~\E e \in lastCall.result.Errors :
                   e.Section = <<"agents", name>> /\ e.Field = "command"

\* C33: Validate adds an error with section opencode and field server_port
\* exactly when server_port is outside 1..65535.
C33_ServerPortRange ==
  Validated
  => ((\E e \in lastCall.result.Errors :
         e.Section = <<"opencode">> /\ e.Field = "server_port")
      <=> lastCall.config.ServerPort \notin 1..65535)


Polled == lastCall.op = "StatusPollInterval"

\* C38 as stated: the interval StatusPollInterval returns is never below one
\* second, equals the configured number of seconds when that is at least 1,
\* and is one second when the refresh interval is unset (zero).
C38_Original ==
  Polled
  => /\ lastCall.result >= 1
     /\ lastCall.config >= 1 => lastCall.result = lastCall.config
     /\ lastCall.config = 0 => lastCall.result = 1

\* C38 amended: the interval StatusPollInterval returns is never below one
\* second, equals the configured number of seconds when that is at least 1,
\* and is five seconds when the refresh interval is unset, zero or negative.
C38_PollIntervalFloor ==
  Polled
  => /\ lastCall.result >= 1
     /\ lastCall.config >= 1 => lastCall.result = lastCall.config
     /\ lastCall.config <= 0 => lastCall.result = 5

\* StatusPollInterval was asked with the refresh interval unset
C38_Witness == Polled /\ lastCall.config = 0 /\ lastCall.result = 5


(***************************************************************************)
(* Properties of the cache expiry                                          *)
(***************************************************************************)
\* the age, at the last call, of the entry the cache held for its session
AgeBefore == now - lastCall.before.timestamp

\* C34: a DetectStatus for a running pane whose session has a cache entry
\* of age equal to the expiry (500 ms) or older re-reads the status files
\* and stores what they hold now with the time of the call; with an entry
\* strictly younger than the expiry the entry is left as it is and its
\* status is the one the call decides from.
C34_ExpiryBoundary ==
  (/\ Detected /\ lastCall.running /\ lastCall.session # ""
   /\ lastCall.before # NoEntry)
  => /\ AgeBefore >= cacheExpiration
        => statusCache[lastCall.session] =
             [status |-> ScanStatusDirs(lastCall.session, 1, AgentNone),
              timestamp |-> now]
     /\ AgeBefore < cacheExpiration
        => /\ statusCache[lastCall.session] = lastCall.before
           /\ lastCall.result =
                IF lastCall.before.status # AgentNone
                THEN lastCall.before.status
                ELSE analyzeTerminalContent(lastCall.content)

\* an entry exactly 500 ms old was replaced by a different status read
\* from the files
C34_Witness ==
  /\ Detected /\ lastCall.running /\ lastCall.session # ""
  /\ lastCall.before # NoEntry
  /\ AgeBefore = cacheExpiration
  /\ statusCache[lastCall.session].timestamp = now
  /\ statusCache[lastCall.session].status # lastCall.before.status
  /\ lastCall.result = AgentWaiting


(***************************************************************************)
(* Properties of the detector under concurrent calls                       *)
(***************************************************************************)
\* the map is read only with the read lock held and written only with the
\* write lock held, and a writer excludes everyone else
LockDiscipline ==
  /\ \A g \in Goroutines :
       /\ calls[g].pc = "lookup" => g \in statusCacheMu.readers
       /\ calls[g].pc \in {"store", "delete"} => statusCacheMu.writer = g
  /\ statusCacheMu.writer # "" => statusCacheMu.readers = {}

\* C35: with DetectStatus calls running concurrently with each other and
\* with InvalidateCache on the same session, every access to the cache map
\* happens under the read or the write lock, and once InvalidateCache has
\* returned no call is served from the cache a status that was read from
\* disk before the invalidation.
C35_NoStaleAfterInvalidate ==
  /\ LockDiscipline
  /\ cacheOrigin.served # "stale"


(***************************************************************************)
(* Properties of the opencode server                                       *)
(***************************************************************************)
\* C39: after Stop has returned IsRunning is false, whichever way Start
\* marked the server running; Start on a running server and Stop on a
\* stopped server change nothing; and the server never has more than one
\* child process.
C39_StopMeansStopped ==
  [][/\ lastCall'.op = "Stop" => ~IsRunning'
     /\ (lastCall'.op = "Start" /\ IsRunning) => UNCHANGED serverVars
     /\ (lastCall'.op = "Stop" /\ ~IsRunning) => UNCHANGED serverVars
     /\ opencodeProcs'.children <= 1]_vars


(***************************************************************************)
(* Properties of the cursors                                               *)
(***************************************************************************)
\* the step is the key h or l handled in Normal mode with no overlay open
ColumnKey(key) ==
  /\ lastKey'.key = key
  /\ lastKey'.mode = ModeNormal
  /\ ~lastKey'.showHelp /\ ~lastKey'.showConfirm

\* C36: on every board the column cursor is never negative and, after h or
\* l, lies within 0..len(columns)-1; h at the first column and l at the last
\* column leave it where it is; and every column move puts the ticket
\* cursor on 0.
C36_ColumnCursorClamped ==
  [][/\ activeColumn' >= 0
     /\ (ColumnKey("h") \/ ColumnKey("l"))
        => /\ activeColumn' \in 0..(NumColumns - 1)
           /\ activeTicket' = 0
     /\ (ColumnKey("h") /\ activeColumn = 0) => activeColumn' = 0
     /\ (ColumnKey("l") /\ activeColumn = NumColumns - 1)
        => activeColumn' = activeColumn]_vars

\* C37: in every reachable state, when the active column is not empty the
\* ticket cursor is the index of one of its tickets, and the indices
\* selectedTicket uses once its length tests have passed are not negative.
C37_TicketCursorInRange ==
  /\ activeColumn >= 0 /\ activeTicket >= 0
  /\ (activeColumn < Len(columnTickets)
      /\ columnTickets[activeColumn + 1] # <<>>)
     => activeTicket < Len(columnTickets[activeColumn + 1])

====
